---- MODULE Spec2Model ----
(***************************************************************************)
(* Switchboard sync orchestration engine: the dependency-aware JobQueue,   *)
(* the handler lifecycle that drives SyncState, the identity mapping store *)
(* and the delta detector.                                                 *)
(*                                                                         *)
(* The queue runs on one cooperative thread.  Every `await` of the source  *)
(* is a suspension point: the code between two awaits is one atomic        *)
(* action, and any other callback may run between two actions.             *)
(***************************************************************************)
EXTENDS Integers, Sequences, FiniteSets, TLC

\* ---------------------------------------------------------------- bounds
MaxJobs == 2
MaxConcurrentLimit == 2
MaxSourceLen == 2
MaxItems == 3
MaxRuns == 2
MaxDeps == 2
MaxNow == 3
TickMs == 300000
MaxHeartbeats == 1
MaxLines == 2

\* part_000 checkStuckSyncs: maxRunningTimeMs = 10 * 60 * 1000
StuckThresholdMs == 600000

\* ------------------------------------------------------ program constants
HIGH == 0
NORMAL == 1
LOW == 2
DefaultMaxConcurrent == 1
DefaultBatchSize == 10

Kinds == {"products", "inventory", "orders"}
JobTypes == {"sync", "webhook"}
\* the kinds whose trigger is 'webhook': the webhook route enqueues for no other
WebhookKinds == {"orders"}

\* config/defaults.ts: inventory depends on products
ConfigDependencies(k) == IF k = "inventory" THEN <<"products">> ELSE <<>>

\* every kind of the handlers map is registered by registerHandlers
RegisteredHandlers == Kinds

VARIABLES
  maxConcurrent,  \* JobQueue.maxConcurrent
  queue,          \* JobQueue.queue: Seq of jobs in dispatch order
  running,        \* JobQueue.running: the jobs of the running map, in insertion order
  processing,     \* JobQueue.processing
  jobCounter,     \* JobQueue.jobCounter
  status,         \* Job.status of every job object, by job id
  pn,             \* the suspended processNext/getNextJob/areDependenciesSatisfied call
  active,         \* handler invocations in flight (startJob awaiting handler(job))
  syncState,      \* SyncState.status per kind (db)
  emitted,        \* lifecycle notifications emitted by the last action
  ret,            \* the last public call and its return value
  waiter,         \* the waitForIdle promise
  recording,      \* whether emitted and ret are recorded; the program reads neither
  handlers,       \* JobQueue.handlers: the kinds with a registered handler
  seen,           \* per kind: the detectDeltas calls made so far and the first result
  behavior,       \* config existingDataBehavior of the kind being synced
  remote,         \* the records of the kind in Shopify: set of [id, key, sku]
  changed,        \* externalIds whose source content differs from the remote record
  run,            \* the sync() call in flight: [pc, kind, n, i, batchSize]
  work,           \* processBatch: the items and the state of each processor call
  stats,          \* processBatch: the SyncStats being counted
  calls,          \* remote mutations issued by the run: Seq of [op, id]
  prev,           \* what the previous run left: [failed, store, remote]
  store,          \* IdMapping rows: set of [dataObject, externalId, shopifyId]
  source,         \* source snapshot read by a handler: Seq of externalIds
  mode,           \* config mode of the kind
  deltas,         \* DeltaResult of the last detectDeltas call
  config,         \* configManager: per kind [enabled, trigger, dependencies]
  sorted,         \* the last result of getEnabledDataObjects
  isRunning,      \* Scheduler.isRunning
  heartbeatInterval, \* Scheduler.heartbeatInterval: whether the timer is set
  scheduledTasks, \* Scheduler.scheduledTasks: the kinds with a cron task
  hb,             \* the heartbeat() calls in flight: the kinds each has yet to read
  now,            \* the clock, in ticks of TickMs
  lastSyncAt,     \* SyncState.lastSyncAt per kind (db)
  lastSuccessAt,  \* SyncState.lastSuccessAt per kind (db)
  log,            \* the kinds logger.warn reported as stuck
  req,            \* the webhook request being handled: [pc, topic, hmac, body]
  res,            \* the response to the last webhook request
  events,         \* WebhookEvent rows (db): how many were created
  secret,         \* configManager.getWebhookSecret()
  sheet,          \* the rows of the sheet a pull handler writes to
  pull            \* the processWebhookData call in flight: [pc, kind, event, n, row, once]

queueVars == <<maxConcurrent, queue, running, processing, jobCounter, status,
               pn, active, syncState, emitted, ret, waiter, recording>>
storeVars == <<store, source, mode, deltas>>
runVars == <<behavior, remote, changed, run, work, stats, calls, prev>>
configVars == <<config, sorted>>
schedVars == <<isRunning, heartbeatInterval, scheduledTasks, hb, now, lastSyncAt, lastSuccessAt, log>>
hookVars == <<req, res, events, secret>>
pullVars == <<sheet, pull>>
envVars == <<configVars, schedVars, hookVars, pullVars>>
vars == <<maxConcurrent, queue, running, processing, jobCounter, status,
          pn, active, syncState, emitted, ret, waiter, recording, handlers,
          store, source, mode, deltas, seen,
          behavior, remote, changed, run, work, stats, calls, prev,
          config, sorted, isRunning, heartbeatInterval, scheduledTasks, hb,
          now, lastSyncAt, lastSuccessAt, log, req, res, events, secret,
          sheet, pull>>

\* ------------------------------------------------------------ job records
NoJob == [id |-> 0, dataObject |-> "none", type |-> "none",
          priority |-> 0, dependencies |-> <<>>]

NewJob(id, dataObject, type, priority, dependencies) ==
  [id |-> id, dataObject |-> dataObject, type |-> type,
   priority |-> priority, dependencies |-> dependencies]

IdleCall == [pc |-> "idle", i |-> 0, job |-> NoJob, d |-> 0, res |-> FALSE]
NoRet == [op |-> "none", dataObject |-> "none", type |-> "none", val |-> 0]

\* what a step leaves in ret and in emitted: the call and its return value, and
\* the notifications, when they are recorded
Returned(r) == IF recording THEN r ELSE NoRet
Emitted(e) == IF recording THEN e ELSE <<>>
NoDeltas == [dataObject |-> "none", toCreate |-> <<>>, toUpdate |-> <<>>,
             toDelete |-> {}, unchanged |-> 0]

SeqToSet(s) == {s[x] : x \in 1..Len(s)}

\* Array.prototype.splice(i, 1) at the 1-based position p; out of range is a no-op
SpliceOut(q, p) ==
  IF p >= 1 /\ p <= Len(q)
    THEN [x \in 1..(Len(q) - 1) |-> IF x < p THEN q[x] ELSE q[x + 1]]
    ELSE q

\* Array.prototype.splice(i, 0, job) at the 1-based position p
SpliceIn(q, p, job) ==
  [x \in 1..(Len(q) + 1) |-> IF x < p THEN q[x] ELSE IF x = p THEN job ELSE q[x - 1]]

\* Array.prototype.find / findIndex: first position whose element satisfies, 0 if none
FirstIndex(q, Test(_)) ==
  IF \E x \in 1..Len(q) : Test(q[x])
    THEN CHOOSE x \in 1..Len(q) : Test(q[x]) /\ \A y \in 1..(x - 1) : ~Test(q[y])
    ELSE 0

\* ------------------------------------------------------- JobQueue helpers
\* JobQueue.isIdle
IsIdleAt(q, r) == Len(q) = 0 /\ Len(r) = 0

IsIdle == IsIdleAt(queue, running)

\* the checkIdle listener of waitForIdle, run synchronously by emit of
\* job:completed, job:failed and job:cancelled
CheckIdle(w, q, r) == IF w = "waiting" /\ IsIdleAt(q, r) THEN "resolvedTrue" ELSE w

\* JobQueue.findJob: the queue first, then the running map
findJob(q, r, dataObject, type) ==
  LET qi == FirstIndex(q, LAMBDA j : j.dataObject = dataObject /\ j.type = type)
      ri == FirstIndex(r, LAMBDA j : j.dataObject = dataObject /\ j.type = type)
  IN IF qi # 0 THEN q[qi] ELSE IF ri # 0 THEN r[ri] ELSE NoJob

\* Map.set(job.id, job): an existing key keeps its position
MapSet(r, job) == IF \E x \in 1..Len(r) : r[x].id = job.id THEN r ELSE Append(r, job)

\* Map.delete(job.id)
MapDelete(r, id) == SpliceOut(r, FirstIndex(r, LAMBDA j : j.id = id))

\* getNextJob at loop index p (1-based): the call of areDependenciesSatisfied
\* suspends; a job without dependencies resolves true without touching the db
ScanAt(q, p) ==
  IF p <= Len(q)
    THEN IF Len(q[p].dependencies) = 0
           THEN [pc |-> "getNextJob", i |-> p, job |-> q[p], d |-> 0, res |-> TRUE]
           ELSE [pc |-> "isSyncRunning", i |-> p, job |-> q[p], d |-> 1, res |-> FALSE]
    ELSE [pc |-> "processNext", i |-> p, job |-> NoJob, d |-> 0, res |-> FALSE]

\* a loop head that admits one job too many
LoopEnterOffByOne(q, r) ==
  IF Len(r) <= maxConcurrent /\ Len(q) > 0 THEN ScanAt(q, 1) ELSE IdleCall

\* the while loop head of processNext
LoopEnter(q, r) ==
  IF Len(r) < maxConcurrent /\ Len(q) > 0 THEN ScanAt(q, 1) ELSE IdleCall

\* a call of processNext(): returns at once when a pass is in flight
ProcessNextCall(q, r) == IF processing THEN pn ELSE LoopEnter(q, r)

\* position at which enqueue inserts: before the first job of lower priority
InsertPosition(q, job) == FirstIndex(q, LAMBDA j : j.priority > job.priority)

\* an insertion that ignores the priority
InsertAtEnd(q, job) == Append(q, job)

InsertByPriority(q, job) ==
  IF InsertPosition(q, job) = 0 THEN Append(q, job)
  ELSE SpliceIn(q, InsertPosition(q, job), job)

\* ------------------------------------------------------ JobQueue.enqueue
enqueue(dataObject, type, priority, dependencies) ==
  /\ UNCHANGED <<recording, handlers, seen>>
  /\ UNCHANGED runVars
  /\ jobCounter < MaxJobs
  /\ jobCounter' = jobCounter + 1
  /\ LET job == NewJob(jobCounter + 1, dataObject, type, priority, dependencies)
         existing == findJob(queue, running, dataObject, type)
     IN IF existing # NoJob
          THEN /\ ret' = Returned([op |-> "enqueue", dataObject |-> dataObject,
                          type |-> type, val |-> existing.id])
               /\ emitted' = <<>>
               /\ UNCHANGED <<queue, running, processing, status, pn, active,
                              syncState, waiter>>
          ELSE /\ queue' = InsertByPriority(queue, job)
               /\ status' = [status EXCEPT ![job.id] = "queued"]
               /\ emitted' = Emitted(<< <<"job:queued", job.id>> >>)
               /\ pn' = ProcessNextCall(queue', running)
               /\ processing' = (pn'.pc # "idle")
               /\ ret' = Returned([op |-> "enqueue", dataObject |-> dataObject,
                          type |-> type, val |-> job.id])
               /\ UNCHANGED <<running, active, syncState, waiter>>
  /\ UNCHANGED <<maxConcurrent, store, source, mode, deltas>>

\* a call of enqueue from code that holds no other state of the model
Enqueue(dataObject, type, priority, dependencies) ==
  /\ enqueue(dataObject, type, priority, dependencies)
  /\ UNCHANGED envVars

\* a trigger that finds its kind disabled returns without a call
TriggerSkipped(op, dataObject) ==
  /\ ret' = Returned([op |-> op, dataObject |-> dataObject,
                      type |-> "sync", val |-> 0])
  /\ emitted' = <<>>
  /\ UNCHANGED <<maxConcurrent, queue, running, processing, jobCounter, status,
                 pn, active, syncState, waiter, recording, handlers, seen>>
  /\ UNCHANGED <<storeVars, runVars, envVars>>

\* Scheduler.triggerSync
TriggerSync(dataObject) ==
  IF config[dataObject].enabled
    THEN Enqueue(dataObject, "sync", NORMAL, ConfigDependencies(dataObject))
    ELSE TriggerSkipped("triggerSync", dataObject)

\* Scheduler.triggerImmediateSync
TriggerImmediateSync(dataObject) ==
  IF config[dataObject].enabled
    THEN Enqueue(dataObject, "sync", HIGH, ConfigDependencies(dataObject))
    ELSE TriggerSkipped("triggerImmediateSync", dataObject)

\* WebhookServer.processWebhook: the enqueue of an accepted event
WebhookEnqueue(dataObject) == Enqueue(dataObject, "webhook", HIGH, <<>>)

\* ------------------------------------------- the dispatch pass (processNext)
\* db: the read of isSyncRunning(dep) = getSyncState(dep).status === 'running'
IsSyncRunningRead ==
  /\ UNCHANGED <<recording, handlers, seen>>
  /\ UNCHANGED envVars
  /\ UNCHANGED runVars
  /\ pn.pc = "isSyncRunning"
  /\ pn' = [pn EXCEPT !.pc = "areDependenciesSatisfied",
                      !.res = (syncState[pn.job.dependencies[pn.d]] = "running")]
  /\ emitted' = <<>>
  /\ ret' = NoRet
  /\ UNCHANGED <<maxConcurrent, queue, running, processing, jobCounter, status,
                 active, syncState, waiter, store, source, mode, deltas>>

\* the rest of one iteration of the dependency loop, given that the
\* dependency was not running: the queued-dependency test
DepQueuedAhead(q, job, dep) ==
  LET di == FirstIndex(q, LAMBDA j : j.dataObject = dep)
  IN di # 0 /\ q[di].priority <= job.priority

\* areDependenciesSatisfied resumes with the answer of isSyncRunning
AreDependenciesSatisfiedResume ==
  /\ UNCHANGED <<recording, handlers, seen>>
  /\ UNCHANGED envVars
  /\ UNCHANGED runVars
  /\ pn.pc = "areDependenciesSatisfied"
  /\ LET dep == pn.job.dependencies[pn.d]
     IN pn' = IF pn.res \/ DepQueuedAhead(queue, pn.job, dep)
                THEN [pn EXCEPT !.pc = "getNextJob", !.res = FALSE]
                ELSE IF pn.d < Len(pn.job.dependencies)
                       THEN [pn EXCEPT !.pc = "isSyncRunning", !.d = pn.d + 1,
                                       !.res = FALSE]
                       ELSE [pn EXCEPT !.pc = "getNextJob", !.res = TRUE]
  /\ emitted' = <<>>
  /\ ret' = NoRet
  /\ UNCHANGED <<maxConcurrent, queue, running, processing, jobCounter, status,
                 active, syncState, waiter, store, source, mode, deltas>>

\* getNextJob resumes with the answer of areDependenciesSatisfied
GetNextJobResume ==
  /\ UNCHANGED <<recording, handlers, seen>>
  /\ UNCHANGED envVars
  /\ UNCHANGED runVars
  /\ pn.pc = "getNextJob"
  /\ IF pn.res
       THEN /\ queue' = SpliceOut(queue, pn.i)
            /\ pn' = [pn EXCEPT !.pc = "processNext"]
       ELSE /\ queue' = queue
            /\ pn' = ScanAt(queue, pn.i + 1)
  /\ emitted' = <<>>
  /\ ret' = NoRet
  /\ UNCHANGED <<maxConcurrent, running, processing, jobCounter, status,
                 active, syncState, waiter, store, source, mode, deltas>>

\* smallest free handle for a handler invocation
FreshActivation(acts) ==
  CHOOSE n \in 1..(Cardinality(acts) + 1) : \A a \in acts : a.aid # n

\* processNext resumes with the job (or null) of getNextJob; startJob runs
\* up to its await of handler(job), then the loop head is evaluated again
ProcessNextResume ==
  /\ UNCHANGED <<recording, handlers, seen>>
  /\ UNCHANGED envVars
  /\ UNCHANGED runVars
  /\ pn.pc = "processNext"
  /\ IF pn.job = NoJob
       THEN /\ pn' = IdleCall
            /\ emitted' = <<>>
            /\ UNCHANGED <<running, status, active, waiter>>
       ELSE IF pn.job.dataObject \notin handlers
         THEN /\ status' = [status EXCEPT ![pn.job.id] = "failed"]
              /\ emitted' = Emitted(<< <<"job:failed", pn.job.id>> >>)
              /\ waiter' = CheckIdle(waiter, queue, running)
              /\ pn' = LoopEnter(queue, running)
              /\ UNCHANGED <<running, active>>
         ELSE /\ status' = [status EXCEPT ![pn.job.id] = "running"]
              /\ running' = MapSet(running, pn.job)
              /\ emitted' = Emitted(<< <<"job:started", pn.job.id>> >>)
              /\ active' = active \cup {[aid |-> FreshActivation(active),
                                         job |-> pn.job, pc |-> "start", ok |-> TRUE]}
              /\ pn' = LoopEnter(queue, running')
              /\ UNCHANGED waiter
  /\ processing' = (pn'.pc # "idle")
  /\ ret' = NoRet
  /\ UNCHANGED <<maxConcurrent, queue, jobCounter, syncState,
                 store, source, mode, deltas>>

\* ------------------------------------------------- BaseHandler.handle(job)
\* handleSync: createJobLog, then markSyncStarted writes status running
MarkSyncStarted(a) ==
  /\ UNCHANGED <<recording, handlers, seen>>
  /\ UNCHANGED <<configVars, hookVars, pullVars>>
  /\ UNCHANGED <<isRunning, heartbeatInterval, scheduledTasks, hb, now, lastSuccessAt, log>>
  /\ UNCHANGED runVars
  /\ a \in active /\ a.pc = "start" /\ a.job.type = "sync"
  /\ syncState' = [syncState EXCEPT ![a.job.dataObject] = "running"]
  /\ lastSyncAt' = [lastSyncAt EXCEPT ![a.job.dataObject] = now]
  /\ active' = (active \ {a}) \cup {[a EXCEPT !.pc = "sync"]}
  /\ emitted' = <<>>
  /\ ret' = NoRet
  /\ UNCHANGED <<maxConcurrent, queue, running, processing, jobCounter, status,
                 pn, waiter, store, source, mode, deltas>>

\* a handleSync whose catch block rethrows without markSyncFailed
SyncReturnsUnmarked(a, ok) ==
  /\ UNCHANGED <<recording, handlers, seen>>
  /\ UNCHANGED <<configVars, hookVars, pullVars>>
  /\ UNCHANGED <<isRunning, heartbeatInterval, scheduledTasks, hb, now, lastSyncAt, log>>
  /\ lastSuccessAt' = IF ok THEN [lastSuccessAt EXCEPT ![a.job.dataObject] = now]
                            ELSE lastSuccessAt
  /\ run' = IF run.pc \in {"returned", "threw"}
              THEN [run EXCEPT !.pc = IF ok THEN "resolved" ELSE "rejected"]
              ELSE run
  /\ UNCHANGED <<behavior, remote, changed, work, stats, calls, prev>>
  /\ a \in active /\ a.pc = "sync"
  /\ syncState' = [syncState EXCEPT
                     ![a.job.dataObject] = IF ok THEN "idle" ELSE @]
  /\ active' = (active \ {a}) \cup {[a EXCEPT !.pc = "returning", !.ok = ok]}
  /\ emitted' = <<>>
  /\ ret' = NoRet
  /\ UNCHANGED <<maxConcurrent, queue, running, processing, jobCounter, status,
                 pn, waiter, store, source, mode, deltas>>

\* handleSync: sync() returned (markSyncCompleted) or threw (markSyncFailed)
SyncReturns(a, ok) ==
  /\ UNCHANGED <<recording, handlers, seen>>
  /\ UNCHANGED <<configVars, hookVars, pullVars>>
  /\ UNCHANGED <<isRunning, heartbeatInterval, scheduledTasks, hb, now, lastSyncAt, log>>
  /\ lastSuccessAt' = IF ok THEN [lastSuccessAt EXCEPT ![a.job.dataObject] = now]
                            ELSE lastSuccessAt
  /\ run' = IF run.pc \in {"returned", "threw"}
              THEN [run EXCEPT !.pc = IF ok THEN "resolved" ELSE "rejected"]
              ELSE run
  /\ UNCHANGED <<behavior, remote, changed, work, stats, calls, prev>>
  /\ a \in active /\ a.pc = "sync"
  /\ syncState' = [syncState EXCEPT
                     ![a.job.dataObject] = IF ok THEN "idle" ELSE "failed"]
  /\ active' = (active \ {a}) \cup {[a EXCEPT !.pc = "returning", !.ok = ok]}
  /\ emitted' = <<>>
  /\ ret' = NoRet
  /\ UNCHANGED <<maxConcurrent, queue, running, processing, jobCounter, status,
                 pn, waiter, store, source, mode, deltas>>

\* a handleWebhook that marks the kind's sync as completed when it returns
WebhookReturnsMarking(a, ok) ==
  /\ UNCHANGED <<recording, handlers, seen>>
  /\ UNCHANGED envVars
  /\ UNCHANGED runVars
  /\ a \in active /\ a.pc = "start" /\ a.job.type = "webhook"
  /\ active' = (active \ {a}) \cup {[a EXCEPT !.pc = "returning", !.ok = ok]}
  /\ emitted' = <<>>
  /\ ret' = NoRet
  /\ syncState' = [syncState EXCEPT ![a.job.dataObject] = IF ok THEN "idle" ELSE "failed"]
  /\ UNCHANGED <<maxConcurrent, queue, running, processing, jobCounter, status,
                 pn, waiter, store, source, mode, deltas>>

\* handleWebhook: processWebhook returned or threw; SyncState is not touched
WebhookReturns(a, ok) ==
  /\ UNCHANGED <<recording, handlers, seen>>
  /\ UNCHANGED envVars
  /\ UNCHANGED runVars
  /\ a \in active /\ a.pc = "start" /\ a.job.type = "webhook"
  /\ active' = (active \ {a}) \cup {[a EXCEPT !.pc = "returning", !.ok = ok]}
  /\ emitted' = <<>>
  /\ ret' = NoRet
  /\ UNCHANGED <<maxConcurrent, queue, running, processing, jobCounter, status,
                 pn, syncState, waiter, store, source, mode, deltas>>

\* startJob resumes after await handler(job): status, notification, then the
\* finally block removes the job from the running map and calls processNext
FinishJob(a) ==
  /\ UNCHANGED <<recording, handlers, seen>>
  /\ UNCHANGED envVars
  /\ UNCHANGED runVars
  /\ a \in active /\ a.pc = "returning"
  /\ status' = [status EXCEPT ![a.job.id] = IF a.ok THEN "completed" ELSE "failed"]
  /\ emitted' = Emitted(<< <<IF a.ok THEN "job:completed" ELSE "job:failed", a.job.id>> >>)
  /\ waiter' = CheckIdle(waiter, queue, running)
  /\ running' = MapDelete(running, a.job.id)
  /\ active' = active \ {a}
  /\ pn' = ProcessNextCall(queue, running')
  /\ processing' = (pn'.pc # "idle")
  /\ ret' = NoRet
  /\ UNCHANGED <<maxConcurrent, queue, jobCounter, syncState,
                 store, source, mode, deltas>>

\* ------------------------------------------------------- JobQueue.cancel
Cancel(jobId) ==
  /\ UNCHANGED <<recording, handlers, seen>>
  /\ UNCHANGED envVars
  /\ UNCHANGED runVars
  /\ LET index == FirstIndex(queue, LAMBDA j : j.id = jobId)
     IN IF index # 0
          THEN /\ status' = [status EXCEPT ![jobId] = "cancelled"]
               /\ queue' = SpliceOut(queue, index)
               /\ emitted' = Emitted(<< <<"job:cancelled", jobId>> >>)
               /\ waiter' = CheckIdle(waiter, queue', running)
               /\ ret' = Returned([op |-> "cancel", dataObject |-> "none",
                          type |-> "true", val |-> jobId])
          ELSE /\ ret' = Returned([op |-> "cancel", dataObject |-> "none",
                          type |-> "false", val |-> jobId])
               /\ emitted' = <<>>
               /\ UNCHANGED <<status, queue, waiter>>
  /\ UNCHANGED <<maxConcurrent, running, processing, jobCounter, pn, active,
                 syncState, store, source, mode, deltas>>

\* positions of the queued jobs of a kind, last first (the loop runs backwards)
RECURSIVE MatchesBackwards(_, _, _)
MatchesBackwards(q, dataObject, p) ==
  IF p = 0 THEN <<>>
  ELSE IF q[p].dataObject = dataObject
         THEN <<q[p]>> \o MatchesBackwards(q, dataObject, p - 1)
         ELSE MatchesBackwards(q, dataObject, p - 1)

RECURSIVE KeepOthers(_, _)
KeepOthers(q, dataObject) ==
  IF q = <<>> THEN <<>>
  ELSE IF Head(q).dataObject = dataObject
         THEN KeepOthers(Tail(q), dataObject)
         ELSE <<Head(q)>> \o KeepOthers(Tail(q), dataObject)

\* JobQueue.cancelAll: every notification is emitted before its job is
\* spliced out, so checkIdle sees a non-empty queue
CancelAll(dataObject) ==
  /\ UNCHANGED <<recording, handlers, seen>>
  /\ UNCHANGED envVars
  /\ UNCHANGED runVars
  /\ LET hit == MatchesBackwards(queue, dataObject, Len(queue))
     IN /\ status' = [id \in DOMAIN status |->
                        IF \E x \in 1..Len(hit) : hit[x].id = id
                          THEN "cancelled" ELSE status[id]]
        /\ emitted' = Emitted([x \in 1..Len(hit) |-> <<"job:cancelled", hit[x].id>>])
        /\ queue' = KeepOthers(queue, dataObject)
        /\ ret' = Returned([op |-> "cancelAll", dataObject |-> dataObject,
                   type |-> "none", val |-> Len(hit)])
  /\ UNCHANGED <<maxConcurrent, running, processing, jobCounter, pn, active,
                 syncState, waiter, store, source, mode, deltas>>

\* JobQueue.clear: the notifications are emitted while the queue is still
\* full, the queue is emptied afterwards
Clear ==
  /\ UNCHANGED <<recording, handlers, seen>>
  /\ UNCHANGED envVars
  /\ UNCHANGED runVars
  /\ status' = [id \in DOMAIN status |->
                  IF \E x \in 1..Len(queue) : queue[x].id = id
                    THEN "cancelled" ELSE status[id]]
  /\ emitted' = Emitted([x \in 1..Len(queue) |-> <<"job:cancelled", queue[x].id>>])
  /\ queue' = <<>>
  /\ ret' = Returned([op |-> "clear", dataObject |-> "none", type |-> "none", val |-> 0])
  /\ UNCHANGED <<maxConcurrent, running, processing, jobCounter, pn, active,
                 syncState, waiter, store, source, mode, deltas>>

\* --------------------------------------------------- JobQueue.waitForIdle
WaitForIdle ==
  /\ UNCHANGED <<recording, handlers, seen>>
  /\ UNCHANGED envVars
  /\ UNCHANGED runVars
  /\ waiter # "waiting"
  /\ waiter' = IF IsIdle THEN "resolvedTrue" ELSE "waiting"
  /\ emitted' = <<>>
  /\ ret' = Returned([op |-> "waitForIdle", dataObject |-> "none", type |-> "none",
             val |-> IF IsIdle THEN 1 ELSE 0])
  /\ UNCHANGED <<maxConcurrent, queue, running, processing, jobCounter, status,
                 pn, active, syncState, store, source, mode, deltas>>

\* the setTimeout callback of waitForIdle
WaitTimeout ==
  /\ UNCHANGED <<recording, handlers, seen>>
  /\ UNCHANGED envVars
  /\ UNCHANGED runVars
  /\ waiter = "waiting"
  /\ waiter' = "resolvedFalse"
  /\ emitted' = <<>>
  /\ ret' = NoRet
  /\ UNCHANGED <<maxConcurrent, queue, running, processing, jobCounter, status,
                 pn, active, syncState, store, source, mode, deltas>>

\* ------------------------------------------------------------------ queue
\* ------------------------------------------------ values before any sync run
\* no detectDeltas call yet
NoSeen == [dataObject |-> "none", n |-> 0, result |-> NoDeltas]

\* no sync() call in flight
NoRun == [pc |-> "idle", kind |-> "none", n |-> 0, i |-> 0, batchSize |-> 0]

\* processBatch: the stats literal it starts from
NoStats == [processed |-> 0, succeeded |-> 0, failed |-> 0, unchanged |-> 0,
            created |-> 0, updated |-> 0, deleted |-> 0]

NoPrev == [runs |-> 0, completed |-> FALSE, failed |-> 0, store |-> {}, remote |-> {}]

\* no handler is at work: nothing detected, nothing read, nothing processed
RunIdle ==
  /\ seen = NoSeen
  /\ behavior = "ignore"
  /\ remote = {}
  /\ changed = {}
  /\ run = NoRun
  /\ work = <<>>
  /\ stats = NoStats
  /\ calls = {}
  /\ prev = NoPrev

QueueInit ==
  /\ maxConcurrent \in 1..MaxConcurrentLimit
  /\ queue = <<>>
  /\ running = <<>>
  /\ processing = FALSE
  /\ jobCounter = 0
  /\ status = [id \in 1..MaxJobs |-> "none"]
  /\ pn = IdleCall
  /\ active = {}
  /\ syncState = [k \in Kinds |-> "idle"]
  /\ emitted = <<>>
  /\ ret = NoRet
  /\ waiter = "none"

StoreIdle ==
  /\ store = {}
  /\ source = <<>>
  /\ mode = "sync"
  /\ deltas = NoDeltas

\* config/defaults.ts: every kind enabled; orders come by webhook, the
\* other kinds by cron
DefaultConfig ==
  [k \in Kinds |->
     [enabled |-> TRUE,
      trigger |-> IF k \in WebhookKinds THEN "webhook" ELSE "cron",
      dependencies |-> ConfigDependencies(k)]]

NoSorted == [called |-> FALSE, threw |-> FALSE, val |-> <<>>]
NoHeartbeat == {}
NoRequest == [pc |-> "idle", topic |-> "none", hmac |-> "none", body |-> "none"]
NoResponse == [status |-> 0, processed |-> FALSE, reason |-> "none"]

\* no processWebhookData call made yet
NoEvent == [topic |-> "none", key |-> "none", id |-> "none", lines |-> 0]
NoPull == [pc |-> "idle", kind |-> "none", event |-> NoEvent, n |-> 0, row |-> 0,
           once |-> [sheet |-> <<>>, store |-> {}]]
PullIdle == sheet = <<>> /\ pull = NoPull

\* no scheduler started, no request received, a database whose SyncState
\* rows carry the timestamp of an earlier process
EnvIdle ==
  /\ config = DefaultConfig
  /\ sorted = NoSorted
  /\ isRunning = FALSE
  /\ heartbeatInterval = FALSE
  /\ scheduledTasks = {}
  /\ hb = NoHeartbeat
  /\ now = 0
  /\ lastSyncAt = [k \in Kinds |-> 0]
  /\ lastSuccessAt = [k \in Kinds |-> 0]
  /\ log = {}
  /\ req = NoRequest
  /\ res = NoResponse
  /\ events = 0
  /\ secret = "secret"
  /\ PullIdle

\* the queue alone
Init ==
  /\ EnvIdle
  /\ QueueInit /\ StoreIdle /\ RunIdle /\ recording = FALSE /\ handlers = RegisteredHandlers

\* the queue with the calls' return values and the notifications recorded
InitCalls ==
  /\ EnvIdle
  /\ QueueInit /\ StoreIdle /\ RunIdle /\ recording = TRUE /\ handlers = RegisteredHandlers

Next ==
  \/ \E k \in Kinds : TriggerSync(k)
  \/ \E k \in Kinds : TriggerImmediateSync(k)
  \/ \E k \in WebhookKinds : WebhookEnqueue(k)
  \/ IsSyncRunningRead
  \/ AreDependenciesSatisfiedResume
  \/ GetNextJobResume
  \/ ProcessNextResume
  \/ \E a \in active : MarkSyncStarted(a)
  \/ \E a \in active : \E ok \in BOOLEAN : SyncReturns(a, ok)
  \/ \E a \in active : \E ok \in BOOLEAN : WebhookReturns(a, ok)
  \/ \E a \in active : FinishJob(a)
  \/ \E id \in 1..MaxJobs : Cancel(id)
  \/ \E k \in Kinds : CancelAll(k)
  \/ Clear

Spec == Init /\ [][Next]_vars

SpecCalls == InitCalls /\ [][Next]_vars

\* the queue under a configuration that enables some kinds only
ConfigEnabling(E) ==
  [k \in Kinds |-> [DefaultConfig[k] EXCEPT !.enabled = (k \in E)]]

InitConfig ==
  /\ QueueInit /\ StoreIdle /\ RunIdle
  /\ recording = TRUE /\ handlers = RegisteredHandlers
  /\ config \in {ConfigEnabling(E) : E \in SUBSET Kinds}
  /\ sorted = NoSorted
  /\ isRunning = FALSE /\ heartbeatInterval = FALSE /\ scheduledTasks = {}
  /\ hb = NoHeartbeat /\ now = 0 /\ lastSyncAt = [k \in Kinds |-> 0]
  /\ lastSuccessAt = [k \in Kinds |-> 0]
  /\ log = {}
  /\ req = NoRequest /\ res = NoResponse /\ events = 0 /\ secret = "secret"
  /\ PullIdle

SpecConfig == InitConfig /\ [][Next]_vars

\* the queue of an application that registered handlers for some kinds only
InitHandlers ==
  /\ EnvIdle
  /\ QueueInit /\ StoreIdle /\ RunIdle /\ recording = TRUE /\ handlers \in SUBSET Kinds

SpecHandlers == InitHandlers /\ [][Next]_vars

\* the queue together with a caller of waitForIdle
NextWait ==
  \/ Next
  \/ WaitForIdle
  \/ WaitTimeout

SpecWait == InitCalls /\ [][NextWait]_vars

TypeOK ==
  /\ recording \in BOOLEAN
  /\ maxConcurrent \in 1..MaxConcurrentLimit
  /\ processing \in BOOLEAN
  /\ processing = (pn.pc # "idle")
  /\ jobCounter \in 0..MaxJobs
  /\ waiter \in {"none", "waiting", "resolvedTrue", "resolvedFalse"}

\* ------------------------------------------------- identity mapping store
StoreKinds == {"products", "orders"}
ExternalIds == {"A", "B", "C"}
ShopifyIds == {"x1", "x2", "x3"}
Undefined == "undefined"

Row(dataObject, externalId, shopifyId) ==
  [dataObject |-> dataObject, externalId |-> externalId, shopifyId |-> shopifyId]

\* the compound unique key dataObject_shopifyId that getExternalId looks up by:
\* the database rejects a write that would leave two rows of a kind with one
\* shopifyId
ViolatesShopifyIdKey(rows) ==
  \E r1, r2 \in rows : /\ r1 # r2
                       /\ r1.dataObject = r2.dataObject
                       /\ r1.shopifyId = r2.shopifyId

\* an upsert that creates a row without looking for the one to update
UpsertRowsNoUpdate(rows, dataObject, externalId, shopifyId) ==
  rows \cup {Row(dataObject, externalId, shopifyId)}

\* db.idMapping.upsert: update the row found by (dataObject, externalId),
\* create it when there is none
UpsertRows(rows, dataObject, externalId, shopifyId) ==
  LET found == {r \in rows : r.dataObject = dataObject /\ r.externalId = externalId}
  IN (rows \ found) \cup {Row(dataObject, externalId, shopifyId)}

\* upsertIdMapping (createMapping, BaseHandler.createIdMapping): a rejected
\* write throws and stores nothing
UpsertIdMapping(dataObject, externalId, shopifyId) ==
  /\ UNCHANGED <<recording, handlers, seen>>
  /\ UNCHANGED envVars
  /\ UNCHANGED runVars
  /\ store' = IF ViolatesShopifyIdKey(UpsertRows(store, dataObject, externalId, shopifyId))
                THEN store
                ELSE UpsertRows(store, dataObject, externalId, shopifyId)
  /\ ret' = Returned([op |-> "upsertIdMapping", dataObject |-> dataObject, type |-> externalId,
             val |-> IF store' = UpsertRows(store, dataObject, externalId, shopifyId)
                       THEN 1 ELSE 0])
  /\ UNCHANGED <<source, mode, deltas>>
  /\ UNCHANGED <<maxConcurrent, queue, running, processing, jobCounter, status,
                 pn, active, syncState, emitted, waiter>>

\* deleteIdMapping (removeMapping): deleteMany by (dataObject, externalId)
DeleteIdMapping(dataObject, externalId) ==
  /\ UNCHANGED <<recording, handlers, seen>>
  /\ UNCHANGED envVars
  /\ UNCHANGED runVars
  /\ store' = {r \in store : ~(r.dataObject = dataObject /\ r.externalId = externalId)}
  /\ ret' = Returned([op |-> "deleteIdMapping", dataObject |-> dataObject, type |-> externalId,
             val |-> 0])
  /\ UNCHANGED <<source, mode, deltas>>
  /\ UNCHANGED <<maxConcurrent, queue, running, processing, jobCounter, status,
                 pn, active, syncState, emitted, waiter>>

\* getShopifyId: findUnique by (dataObject, externalId), null when absent
getShopifyId(rows, dataObject, externalId) ==
  IF \E r \in rows : r.dataObject = dataObject /\ r.externalId = externalId
    THEN (CHOOSE r \in rows : r.dataObject = dataObject /\ r.externalId = externalId).shopifyId
    ELSE Undefined

\* getManagedItems: the Map externalId -> shopifyId of the rows of a kind
\* (Map.get of an absent key is undefined)
getManagedItems(rows, dataObject) ==
  [e \in ExternalIds |-> getShopifyId(rows, dataObject, e)]

\* ------------------------------------------------------------ detectDeltas
\* JavaScript truthiness of the looked-up shopifyId
Truthy(v) == v # Undefined /\ v # ""

\* the loop over sourceItems: the toCreate list
RECURSIVE ToCreate(_, _)
ToCreate(items, managedItems) ==
  IF items = <<>> THEN <<>>
  ELSE IF Truthy(managedItems[Head(items)])
         THEN ToCreate(Tail(items), managedItems)
         ELSE <<[externalId |-> Head(items)]>> \o ToCreate(Tail(items), managedItems)

\* the loop over sourceItems: the toUpdate list
RECURSIVE ToUpdate(_, _)
ToUpdate(items, managedItems) ==
  IF items = <<>> THEN <<>>
  ELSE IF Truthy(managedItems[Head(items)])
         THEN <<[externalId |-> Head(items), shopifyId |-> managedItems[Head(items)]]>>
              \o ToUpdate(Tail(items), managedItems)
         ELSE ToUpdate(Tail(items), managedItems)

\* the loop over managedItems run whatever the mode
ToDeleteAnyMode(items, managedItems, m) ==
  {e \in ExternalIds : managedItems[e] # Undefined /\ e \notin SeqToSet(items)}

\* the loop over managedItems (only under mode sync); the iteration order is
\* the order in which the database returned the rows, so toDelete is kept as
\* the set of its elements
ToDelete(items, managedItems, m) ==
  IF m = "sync"
    THEN {e \in ExternalIds : managedItems[e] # Undefined /\ e \notin SeqToSet(items)}
    ELSE {}

detectDeltas(rows, dataObject, items, m) ==
  [dataObject |-> dataObject,
   toCreate |-> ToCreate(items, getManagedItems(rows, dataObject)),
   toUpdate |-> ToUpdate(items, getManagedItems(rows, dataObject)),
   toDelete |-> ToDelete(items, getManagedItems(rows, dataObject), m),
   unchanged |-> 0]

\* a detection that also drops the mappings it found deletable
DetectDeltasPruning(dataObject) ==
  /\ UNCHANGED <<recording, handlers>>
  /\ UNCHANGED envVars
  /\ UNCHANGED runVars
  /\ deltas' = detectDeltas(store, dataObject, source, mode)
  /\ seen' = IF seen.dataObject = dataObject
               THEN [seen EXCEPT !.n = IF seen.n < 2 THEN seen.n + 1 ELSE 2]
               ELSE [dataObject |-> dataObject, n |-> 1, result |-> deltas']
  /\ ret' = Returned([op |-> "detectDeltas", dataObject |-> dataObject, type |-> mode, val |-> 0])
  /\ store' = {r \in store : ~(r.dataObject = dataObject
                                /\ r.externalId \in deltas'.toDelete)}
  /\ UNCHANGED <<source, mode>>
  /\ UNCHANGED <<maxConcurrent, queue, running, processing, jobCounter, status,
                 pn, active, syncState, emitted, waiter>>

\* BaseHandler.detectDeltas from ToShopifyHandler.sync
DetectDeltas(dataObject) ==
  /\ UNCHANGED <<recording, handlers>>
  /\ UNCHANGED envVars
  /\ UNCHANGED runVars
  /\ deltas' = detectDeltas(store, dataObject, source, mode)
  /\ seen' = IF seen.dataObject = dataObject
               THEN [seen EXCEPT !.n = IF seen.n < 2 THEN seen.n + 1 ELSE 2]
               ELSE [dataObject |-> dataObject, n |-> 1, result |-> deltas']
  /\ ret' = Returned([op |-> "detectDeltas", dataObject |-> dataObject, type |-> mode, val |-> 0])
  /\ UNCHANGED <<store, source, mode>>
  /\ UNCHANGED <<maxConcurrent, queue, running, processing, jobCounter, status,
                 pn, active, syncState, emitted, waiter>>

StoreInit ==
  /\ EnvIdle
  /\ maxConcurrent = DefaultMaxConcurrent
  /\ queue = <<>> /\ running = <<>> /\ processing = FALSE /\ jobCounter = 0
  /\ status = [id \in 1..MaxJobs |-> "none"]
  /\ pn = IdleCall /\ active = {}
  /\ syncState = [k \in Kinds |-> "idle"]
  /\ emitted = <<>> /\ ret = NoRet /\ waiter = "none" /\ recording = TRUE
  /\ handlers = RegisteredHandlers /\ RunIdle
  /\ StoreIdle

StoreNext ==
  \/ \E k \in StoreKinds, e \in ExternalIds, x \in ShopifyIds : UpsertIdMapping(k, e, x)
  \/ \E k \in StoreKinds, e \in ExternalIds : DeleteIdMapping(k, e)

\* the mapping store under arbitrary writes and deletes of handlers
SpecStore == StoreInit /\ [][StoreNext]_vars

\* detectDeltas applied to every mapping snapshot, source snapshot and mode
AllRows == {Row(k, e, x) : k \in StoreKinds, e \in ExternalIds, x \in ShopifyIds}

Bijective(rows) ==
  \A r1, r2 \in rows :
    (r1 # r2 /\ r1.dataObject = r2.dataObject)
      => (r1.externalId # r2.externalId /\ r1.shopifyId # r2.shopifyId)

Sources == UNION {[1..n -> ExternalIds] : n \in 0..MaxSourceLen}

DeltaInit ==
  /\ EnvIdle
  /\ maxConcurrent = DefaultMaxConcurrent
  /\ queue = <<>> /\ running = <<>> /\ processing = FALSE /\ jobCounter = 0
  /\ status = [id \in 1..MaxJobs |-> "none"]
  /\ pn = IdleCall /\ active = {}
  /\ syncState = [k \in Kinds |-> "idle"]
  /\ emitted = <<>> /\ ret = NoRet /\ waiter = "none" /\ recording = TRUE
  /\ handlers = RegisteredHandlers /\ RunIdle
  /\ store \in {rows \in SUBSET AllRows : Bijective(rows)}
  /\ source \in Sources
  /\ mode \in {"sync", "overwrite"}
  /\ deltas = NoDeltas

DeltaNext == \E k \in StoreKinds : DetectDeltas(k)

SpecDelta == DeltaInit /\ [][DeltaNext]_vars

\* ------------------------------------------------ BaseHandler.processBatch
\* what a processor yields for an item: an ItemResult with success true and
\* one of four actions, an ItemResult with success false (action skipped), or
\* an exception
SuccessActions == {"created", "updated", "deleted", "unchanged"}
Outcomes == SuccessActions \cup {"skipped", "thrown"}

\* an item of the list given to processBatch, with the position of its
\* callback; fate is what a processor given by the caller will yield for it
Item(externalId, action, shopifyId, fate) ==
  [externalId |-> externalId, action |-> action, shopifyId |-> shopifyId,
   fate |-> fate, pc |-> "pending", result |-> "none"]

\* items.slice(i, i + batchSize), as indices
SliceOf(i, batchSize, n) == {x \in 1..n : x > i /\ x <= i + batchSize}

\* the first await of the processor called for an item: the processor of
\* ToShopifyHandler.sync calls createInShopify (ProductsHandler looks for an
\* existing product unless the policy is ignore, CatalogsHandler always lists
\* the catalogs) or updateInShopify; any other processor is the caller's
ProcessorEntry(item) ==
  IF item.action = "create"
    THEN IF run.kind = "catalogs" THEN "getCatalogs"
         ELSE IF behavior # "ignore" THEN "findProductByHandle"
         ELSE "createProduct"
  ELSE IF item.action = "update" THEN "updateInShopify"
  ELSE "processor"

\* a callback whose catch block does not count
SettleStatsNoCatch(st, result) ==
  IF result \in SuccessActions
    THEN [st EXCEPT !.succeeded = @ + 1, ![result] = @ + 1]
    ELSE IF result = "skipped" THEN [st EXCEPT !.failed = @ + 1] ELSE st

\* the callback of batch.map after await processor(item)
SettleStats(st, result) ==
  IF result \in SuccessActions
    THEN [st EXCEPT !.succeeded = @ + 1, ![result] = @ + 1]
    ELSE [st EXCEPT !.failed = @ + 1]

\* the head of the for loop, reached when processBatch is called and when
\* Promise.all of a slice has resolved: batch.map runs every callback of the
\* next slice up to its await of processor(item), or the stats are returned
ProcessBatchLoop ==
  /\ run.pc = "loop"
  /\ IF run.i < Len(work)
       THEN /\ work' = [x \in 1..Len(work) |->
                          IF x \in SliceOf(run.i, run.batchSize, Len(work))
                            THEN [work[x] EXCEPT !.pc = ProcessorEntry(work[x])]
                            ELSE work[x]]
            /\ stats' = [stats EXCEPT !.processed =
                           @ + Cardinality(SliceOf(run.i, run.batchSize, Len(work)))]
            /\ run' = [run EXCEPT !.pc = "all"]
       ELSE /\ run' = [run EXCEPT !.pc = "returned"]
            /\ UNCHANGED <<work, stats>>
  /\ UNCHANGED <<behavior, remote, changed, calls, prev>>
  /\ UNCHANGED <<recording, handlers, seen>>
  /\ UNCHANGED envVars
  /\ UNCHANGED storeVars
  /\ UNCHANGED queueVars

\* a processor given by the caller settles for item x
Processor(x) ==
  /\ x \in 1..Len(work) /\ work[x].pc = "processor"
  /\ work' = [work EXCEPT ![x].pc = "result", ![x].result = work[x].fate]
  /\ UNCHANGED <<behavior, remote, changed, run, stats, calls, prev>>
  /\ UNCHANGED <<recording, handlers, seen>>
  /\ UNCHANGED envVars
  /\ UNCHANGED storeVars
  /\ UNCHANGED queueVars

\* a callback through which the failure of an item rejects Promise.all
ItemSettlesRethrows(x) ==
  /\ x \in 1..Len(work) /\ work[x].pc = "result"
  /\ work' = [work EXCEPT ![x].pc = "done"]
  /\ stats' = SettleStats(stats, work[x].result)
  /\ run' = IF work[x].result \notin SuccessActions
              THEN [run EXCEPT !.pc = "threw"]
              ELSE IF \A y \in SliceOf(run.i, run.batchSize, Len(work)) : work'[y].pc = "done"
                THEN [run EXCEPT !.pc = "loop", !.i = run.i + run.batchSize]
                ELSE run
  /\ UNCHANGED <<behavior, remote, changed, calls, prev>>
  /\ UNCHANGED <<recording, handlers, seen>>
  /\ UNCHANGED envVars
  /\ UNCHANGED storeVars
  /\ UNCHANGED queueVars

\* the callback of item x resumes after await processor(item) and counts;
\* Promise.all resolves with the last callback of the slice
ItemSettles(x) ==
  /\ x \in 1..Len(work) /\ work[x].pc = "result"
  /\ work' = [work EXCEPT ![x].pc = "done"]
  /\ stats' = SettleStats(stats, work[x].result)
  /\ run' = IF \A y \in SliceOf(run.i, run.batchSize, Len(work)) : work'[y].pc = "done"
              THEN [run EXCEPT !.pc = "loop", !.i = run.i + run.batchSize]
              ELSE run
  /\ UNCHANGED <<behavior, remote, changed, calls, prev>>
  /\ UNCHANGED <<recording, handlers, seen>>
  /\ UNCHANGED envVars
  /\ UNCHANGED storeVars
  /\ UNCHANGED queueVars

\* processBatch called with every item list, processor and batch size
BatchSizes == {1, 2, DefaultBatchSize}

ItemLists ==
  UNION {[1..n -> {Item("none", "none", Undefined, f) : f \in Outcomes}] : n \in 0..MaxItems}

BatchInit ==
  /\ EnvIdle
  /\ maxConcurrent = DefaultMaxConcurrent
  /\ queue = <<>> /\ running = <<>> /\ processing = FALSE /\ jobCounter = 0
  /\ status = [id \in 1..MaxJobs |-> "none"]
  /\ pn = IdleCall /\ active = {}
  /\ syncState = [k \in Kinds |-> "idle"]
  /\ emitted = <<>> /\ ret = NoRet /\ waiter = "none" /\ recording = FALSE
  /\ handlers = RegisteredHandlers
  /\ StoreIdle
  /\ seen = NoSeen /\ behavior = "ignore" /\ remote = {} /\ changed = {}
  /\ calls = {} /\ prev = NoPrev
  /\ \E bs \in BatchSizes :
       run = [pc |-> "loop", kind |-> "none", n |-> 1, i |-> 0, batchSize |-> bs]
  /\ work \in ItemLists
  /\ stats = NoStats

BatchNext ==
  \/ ProcessBatchLoop
  \/ \E x \in 1..Len(work) : Processor(x)
  \/ \E x \in 1..Len(work) : ItemSettles(x)

SpecBatch == BatchInit /\ [][BatchNext]_vars

\* ---------------------------------------------------- ToShopifyHandler.sync
PushKinds == {"products", "catalogs"}
Behaviors == {"ignore", "adopt", "adopt_and_archive"}

\* a search value: the text after the prefixes put in front of it
Plain(text) == [prefix |-> "", text |-> text]
Prefixed(prefix, text) == [prefix |-> prefix, text |-> text]

\* the SKU of the variant of the source product with a handle
Sku == [e \in ExternalIds |-> IF e = "A" THEN "s1" ELSE IF e = "B" THEN "s2" ELSE "s3"]

\* String.prototype.toLowerCase on the titles of the model
Titles == ExternalIds \cup {"a"}
toLowerCase(t) ==
  IF t = "A" THEN "a" ELSE IF t = "B" THEN "b" ELSE IF t = "C" THEN "c" ELSE t

\* a record of the remote store: a product (key = handle, sku = variant SKU)
\* or a catalog (key = title)
RemoteRecord(id, key, sku) == [id |-> id, key |-> key, sku |-> sku]

\* getProductBySku(sku): products(first: 1, query: `sku:${sku}`), the products
\* whose variant SKU is the text given
getProductBySku(records, sku) == {r \in records : r.sku = sku}

\* ProductsHandler.findProductByHandle: getProductBySku(`handle:${handle}`)
findProductByHandle(records, handle) ==
  getProductBySku(records, Prefixed("handle", handle))

\* CatalogsHandler.createInShopify: existingCatalogs.find by lower-cased title
\* (find returns the first match of the list; the list order is the server's)
findCatalog(records, name) ==
  {r \in records : toLowerCase(r.key) = toLowerCase(name)}

\* ids the remote store has not given out
RemoteIds == ShopifyIds \cup {"x4", "x5"}
FreshIds == {id \in RemoteIds :
               /\ \A r \in remote : r.id # id
               /\ \A r \in store : r.shopifyId # id}

\* allItems of sync: toCreate tagged create, then toUpdate tagged update
AllItems(d) ==
  [x \in 1..(Len(d.toCreate) + Len(d.toUpdate)) |->
     IF x <= Len(d.toCreate)
       THEN Item(d.toCreate[x].externalId, "create", Undefined, "none")
       ELSE Item(d.toUpdate[x - Len(d.toCreate)].externalId, "update",
                 d.toUpdate[x - Len(d.toCreate)].shopifyId, "none")]

\* sync() of the handler of a kind is called: readSourceItems and detectDeltas
\* resolve (ok) and the item list is built, or one of them throws
RunStart(kind, ok) ==
  /\ run.n < MaxRuns
  /\ prev' = IF run.n = 0 THEN prev
             ELSE [runs |-> run.n, completed |-> (run.pc # "threw"),
                   failed |-> stats.failed, store |-> store, remote |-> remote]
  /\ IF ok
       THEN /\ deltas' = detectDeltas(store, kind, source, mode)
            /\ work' = AllItems(deltas')
            /\ run' = [pc |-> "loop", kind |-> kind, n |-> run.n + 1, i |-> 0,
                       batchSize |-> DefaultBatchSize]
       ELSE /\ deltas' = NoDeltas
            /\ work' = <<>>
            /\ run' = [pc |-> "threw", kind |-> kind, n |-> run.n + 1, i |-> 0,
                       batchSize |-> DefaultBatchSize]
  /\ stats' = NoStats
  /\ calls' = {}
  /\ UNCHANGED <<behavior, remote, changed>>
  /\ UNCHANGED <<recording, handlers, seen>>
  /\ UNCHANGED envVars
  /\ UNCHANGED <<store, source, mode>>
  /\ UNCHANGED queueVars

\* ProductsHandler.createInShopify: findProductByHandle resolves; an existing
\* product is adopted, otherwise createProduct is called
FindProductByHandle(x) ==
  /\ x \in 1..Len(work) /\ work[x].pc = "findProductByHandle"
  /\ IF findProductByHandle(remote, work[x].externalId) = {}
       THEN work' = [work EXCEPT ![x].pc = "createProduct"]
       ELSE \E r \in findProductByHandle(remote, work[x].externalId) :
              work' = [work EXCEPT ![x].pc = "adopt", ![x].shopifyId = r.id]
  /\ UNCHANGED <<behavior, remote, changed, run, stats, calls, prev>>
  /\ UNCHANGED <<recording, handlers, seen>>
  /\ UNCHANGED envVars
  /\ UNCHANGED storeVars
  /\ UNCHANGED queueVars

\* the upsert of createIdMapping throws when the database rejects the write
MappingWritten(x) ==
  ~ViolatesShopifyIdKey(UpsertRows(store, run.kind, work[x].externalId, work[x].shopifyId))

\* ProductsHandler.createInShopify, adopt branch: createIdMapping and
\* setMetafield, then existing.id is returned to sync
Adopt(x) ==
  /\ x \in 1..Len(work) /\ work[x].pc = "adopt"
  /\ IF MappingWritten(x)
       THEN /\ store' = UpsertRows(store, run.kind, work[x].externalId, work[x].shopifyId)
            /\ work' = [work EXCEPT ![x].pc = "createIdMapping"]
       ELSE /\ store' = store
            /\ work' = [work EXCEPT ![x].pc = "result", ![x].result = "skipped"]
  /\ UNCHANGED <<behavior, remote, changed, run, stats, calls, prev>>
  /\ UNCHANGED <<recording, handlers, seen>>
  /\ UNCHANGED envVars
  /\ UNCHANGED <<source, mode, deltas>>
  /\ UNCHANGED queueVars

\* CatalogsHandler.createInShopify: getCatalogs resolves; the id of a catalog
\* with the same lower-cased title is returned to sync, otherwise createCatalog
\* is called (settings.createIfNotExists is true in the default configuration)
GetCatalogs(x) ==
  /\ x \in 1..Len(work) /\ work[x].pc = "getCatalogs"
  /\ IF findCatalog(remote, work[x].externalId) = {}
       THEN work' = [work EXCEPT ![x].pc = "createCatalog"]
       ELSE \E r \in findCatalog(remote, work[x].externalId) :
              work' = [work EXCEPT ![x].pc = "createIdMapping", ![x].shopifyId = r.id]
  /\ UNCHANGED <<behavior, remote, changed, run, stats, calls, prev>>
  /\ UNCHANGED <<recording, handlers, seen>>
  /\ UNCHANGED envVars
  /\ UNCHANGED storeVars
  /\ UNCHANGED queueVars

\* createProduct / createCatalog resolves with the new record's id, or the
\* remote call throws and the processor returns failureResult
CreateRemote(x, ok) ==
  /\ x \in 1..Len(work) /\ work[x].pc \in {"createProduct", "createCatalog"}
  /\ IF ok
       THEN /\ FreshIds # {}
            /\ LET id == CHOOSE i \in FreshIds : TRUE
               IN /\ remote' = remote \cup
                       {RemoteRecord(id, work[x].externalId,
                                     IF run.kind = "products"
                                       THEN Plain(Sku[work[x].externalId])
                                       ELSE Plain(""))}
                  /\ calls' = calls \cup {[op |-> "create", key |-> work[x].externalId]}
                  /\ work' = [work EXCEPT ![x].pc = "createIdMapping", ![x].shopifyId = id]
       ELSE /\ work' = [work EXCEPT ![x].pc = "result", ![x].result = "skipped"]
            /\ UNCHANGED <<remote, calls>>
  /\ UNCHANGED <<behavior, changed, run, stats, prev>>
  /\ UNCHANGED <<recording, handlers, seen>>
  /\ UNCHANGED envVars
  /\ UNCHANGED storeVars
  /\ UNCHANGED queueVars

\* a processor that leaves the mapping of a created item unwritten
CreateIdMappingSkipped(x) ==
  /\ x \in 1..Len(work) /\ work[x].pc = "createIdMapping"
  /\ store' = store
  /\ work' = [work EXCEPT ![x].pc = "updateSourceShopifyId"]
  /\ UNCHANGED <<behavior, remote, changed, run, stats, calls, prev>>
  /\ UNCHANGED <<recording, handlers, seen>>
  /\ UNCHANGED envVars
  /\ UNCHANGED <<source, mode, deltas>>
  /\ UNCHANGED queueVars

\* sync's processor: createIdMapping(externalId, shopifyId) resolves or throws
CreateIdMapping(x) ==
  /\ x \in 1..Len(work) /\ work[x].pc = "createIdMapping"
  /\ IF MappingWritten(x)
       THEN /\ store' = UpsertRows(store, run.kind, work[x].externalId, work[x].shopifyId)
            /\ work' = [work EXCEPT ![x].pc = "updateSourceShopifyId"]
       ELSE /\ store' = store
            /\ work' = [work EXCEPT ![x].pc = "result", ![x].result = "skipped"]
  /\ UNCHANGED <<behavior, remote, changed, run, stats, calls, prev>>
  /\ UNCHANGED <<recording, handlers, seen>>
  /\ UNCHANGED envVars
  /\ UNCHANGED <<source, mode, deltas>>
  /\ UNCHANGED queueVars

\* sync's processor: updateSourceShopifyId resolves (successResult created) or
\* throws (failureResult)
UpdateSourceShopifyId(x, ok) ==
  /\ x \in 1..Len(work) /\ work[x].pc = "updateSourceShopifyId"
  /\ work' = [work EXCEPT ![x].pc = "result",
                          ![x].result = IF ok THEN "created" ELSE "skipped"]
  /\ UNCHANGED <<behavior, remote, changed, run, stats, calls, prev>>
  /\ UNCHANGED <<recording, handlers, seen>>
  /\ UNCHANGED envVars
  /\ UNCHANGED storeVars
  /\ UNCHANGED queueVars

\* sync's processor, update branch: updateInShopify(shopifyId, data) resolves
\* (successResult updated) or throws (failureResult); ProductsHandler calls
\* updateProduct, CatalogsHandler only logs
UpdateInShopify(x, ok) ==
  /\ x \in 1..Len(work) /\ work[x].pc = "updateInShopify"
  /\ IF ok
       THEN /\ calls' = IF run.kind = "products"
                          THEN calls \cup {[op |-> "update", key |-> work[x].externalId]}
                          ELSE calls
            /\ work' = [work EXCEPT ![x].pc = "result", ![x].result = "updated"]
       ELSE /\ work' = [work EXCEPT ![x].pc = "result", ![x].result = "skipped"]
            /\ calls' = calls
  /\ UNCHANGED <<behavior, remote, changed, run, stats, prev>>
  /\ UNCHANGED <<recording, handlers, seen>>
  /\ UNCHANGED envVars
  /\ UNCHANGED storeVars
  /\ UNCHANGED queueVars

\* the first call of sync() of a handler
SyncCalled(kind, ok) == run.pc = "idle" /\ RunStart(kind, ok)

\* the next trigger calls sync() again after the previous call has ended
SyncCalledAgain(kind, ok) == run.pc \in {"returned", "threw"} /\ RunStart(kind, ok)

\* the mapping rows and remote records a run can start from: every mapped
\* item has its remote record, and the remote store may hold one record the
\* application never mapped
ManagedRows(kind) == {Row(kind, "A", "x1"), Row(kind, "C", "x2")}

SkuOf(kind, key) ==
  IF kind = "products" /\ key \in ExternalIds THEN Plain(Sku[key]) ELSE Plain("")

RemoteOf(rows) ==
  {RemoteRecord(r.shopifyId, r.externalId, SkuOf(r.dataObject, r.externalId)) : r \in rows}

\* (a product's SKU is free text: it may be the text "handle:A")
Unmanaged(kind) ==
  {{}} \cup {{RemoteRecord("x3", t, SkuOf(kind, t))} : t \in Titles}
       \cup (IF kind = "products"
               THEN {{RemoteRecord("x3", "B", Prefixed("handle", "A"))}}
               ELSE {})

RunInit ==
  /\ EnvIdle
  /\ maxConcurrent = DefaultMaxConcurrent
  /\ queue = <<>> /\ running = <<>> /\ processing = FALSE /\ jobCounter = 0
  /\ status = [id \in 1..MaxJobs |-> "none"]
  /\ pn = IdleCall /\ active = {}
  /\ syncState = [k \in Kinds |-> "idle"]
  /\ emitted = <<>> /\ ret = NoRet /\ waiter = "none" /\ recording = FALSE
  /\ handlers = RegisteredHandlers
  /\ seen = NoSeen /\ deltas = NoDeltas
  /\ work = <<>> /\ stats = NoStats /\ calls = {} /\ prev = NoPrev
  /\ behavior \in Behaviors
  /\ mode \in {"sync", "overwrite"}
  /\ source \in Sources
  /\ \E k \in PushKinds :
       /\ run = [NoRun EXCEPT !.kind = k]
       /\ store \in SUBSET ManagedRows(k)
       /\ \E u \in Unmanaged(k) : remote = RemoteOf(store) \cup u
  /\ changed \in SUBSET ({r.externalId : r \in store} \cap SeqToSet(source))

\* processBatch with the processor of sync, for a handler that creates
\* without looking for an existing record
ItemNext ==
  \/ ProcessBatchLoop
  \/ \E x \in 1..Len(work) : ItemSettles(x)
  \/ \E x \in 1..Len(work) : \E ok \in BOOLEAN : CreateRemote(x, ok)
  \/ \E x \in 1..Len(work) : CreateIdMapping(x)
  \/ \E x \in 1..Len(work) : \E ok \in BOOLEAN : UpdateSourceShopifyId(x, ok)
  \/ \E x \in 1..Len(work) : \E ok \in BOOLEAN : UpdateInShopify(x, ok)

RunNext ==
  \/ \E ok \in BOOLEAN : SyncCalled(run.kind, ok)
  \/ ItemNext
  \/ \E x \in 1..Len(work) : FindProductByHandle(x)
  \/ \E x \in 1..Len(work) : Adopt(x)
  \/ \E x \in 1..Len(work) : GetCatalogs(x)

\* one call of sync() of a push handler, from every starting point
SpecRun == RunInit /\ [][RunNext]_vars

\* sync() called again on what a call without failed items left, the source
\* unchanged
RerunNext ==
  \/ \E ok \in BOOLEAN : SyncCalled(run.kind, ok)
  \/ ItemNext
  \/ \E x \in 1..Len(work) : GetCatalogs(x)
  \/ \E ok \in BOOLEAN : stats.failed = 0 /\ SyncCalledAgain(run.kind, ok)

RerunInit ==
  /\ RunInit
  /\ behavior = "ignore" /\ mode = "sync"
  /\ remote = RemoteOf(store) /\ changed = {}

SpecRerun == RerunInit /\ [][RerunNext]_vars

\* one sync job of the products handler from trigger to completion: the queue
\* dispatches it, handleSync calls sync() and hands its outcome to startJob
JobRunInit ==
  /\ EnvIdle
  /\ QueueInit /\ maxConcurrent = DefaultMaxConcurrent
  /\ recording = FALSE /\ handlers = RegisteredHandlers
  /\ seen = NoSeen /\ deltas = NoDeltas
  /\ work = <<>> /\ stats = NoStats /\ calls = {} /\ prev = NoPrev
  /\ behavior = "ignore"
  /\ mode \in {"sync", "overwrite"}
  /\ source \in Sources
  /\ run = [NoRun EXCEPT !.kind = "products"]
  /\ store \in SUBSET ManagedRows("products")
  /\ remote = RemoteOf(store)
  /\ changed = {}

HandleSyncCallsSync ==
  \E a \in active : \E ok \in BOOLEAN :
    /\ a.pc = "sync" /\ a.job.type = "sync"
    /\ SyncCalled(a.job.dataObject, ok)

SyncHandsBack ==
  \E a \in active :
    \/ run.pc = "returned" /\ SyncReturns(a, TRUE)
    \/ run.pc = "threw" /\ SyncReturns(a, FALSE)

JobRunNext ==
  \/ jobCounter = 0 /\ TriggerSync("products")
  \/ GetNextJobResume
  \/ ProcessNextResume
  \/ \E a \in active : MarkSyncStarted(a)
  \/ HandleSyncCallsSync
  \/ ItemNext
  \/ SyncHandsBack
  \/ \E a \in active : FinishJob(a)

SpecJobRun == JobRunInit /\ [][JobRunNext]_vars

\* ============================== ConfigManager.getEnabledDataObjects
\* Object.keys(config.dataObjects): the kinds in the order of defaults.ts
KindOrder == <<"products", "inventory", "orders">>

\* the state of sortByDependencies: sorted, visited, visiting, and whether
\* the circular dependency error was thrown
NoVisits == [sorted |-> <<>>, visited |-> {}, visiting |-> {}, threw |-> FALSE]

RECURSIVE visit(_, _, _, _)
RECURSIVE VisitDeps(_, _, _, _, _)

\* the closure visit(name) of sortByDependencies
visit(cfg, objects, name, st) ==
  IF st.threw \/ name \in st.visited THEN st
  ELSE IF name \in st.visiting THEN [st EXCEPT !.threw = TRUE]
  ELSE LET after == VisitDeps(cfg, objects, cfg[name].dependencies, 1,
                              [st EXCEPT !.visiting = @ \cup {name}])
       IN IF after.threw THEN after
          ELSE [after EXCEPT !.visiting = @ \ {name},
                             !.visited = @ \cup {name},
                             !.sorted = Append(@, name)]

\* the loop of visit over deps, from position i
VisitDeps(cfg, objects, deps, i, st) ==
  IF i > Len(deps) \/ st.threw THEN st
  ELSE VisitDeps(cfg, objects, deps, i + 1,
                 IF deps[i] \in SeqToSet(objects)
                   THEN visit(cfg, objects, deps[i], st)
                   ELSE st)

RECURSIVE VisitAll(_, _, _, _)
\* the loop of sortByDependencies over objects, from position i
VisitAll(cfg, objects, i, st) ==
  IF i > Len(objects) \/ st.threw THEN st
  ELSE VisitAll(cfg, objects, i + 1, visit(cfg, objects, objects[i], st))

\* a sort that returns the kinds as given
sortInGivenOrder(cfg, objects) ==
  [called |-> TRUE, threw |-> FALSE, val |-> objects]

\* ConfigManager.sortByDependencies: the sorted kinds, or the error
sortByDependencies(cfg, objects) ==
  LET st == VisitAll(cfg, objects, 1, NoVisits)
  IN [called |-> TRUE, threw |-> st.threw,
      val |-> IF st.threw THEN <<>> ELSE st.sorted]

\* the enabled kinds in key order
EnabledInOrder(cfg) == SelectSeq(KindOrder, LAMBDA k : cfg[k].enabled)

\* ConfigManager.getEnabledDataObjects
getEnabledDataObjects(cfg) == sortByDependencies(cfg, EnabledInOrder(cfg))

\* a call of getEnabledDataObjects
GetEnabledDataObjects ==
  /\ ~sorted.called
  /\ sorted' = getEnabledDataObjects(config)
  /\ UNCHANGED <<queueVars, handlers, seen, storeVars, runVars, config,
                 schedVars, hookVars, pullVars>>

\* dependency lists: up to MaxDeps different kinds, in any order
DependencyLists ==
  {d \in UNION {[1..n -> Kinds] : n \in 0..MaxDeps} :
     \A x, y \in 1..Len(d) : d[x] = d[y] => x = y}

\* every configuration of enabled kinds and dependency lists
SortInit ==
  /\ QueueInit /\ maxConcurrent = DefaultMaxConcurrent
  /\ StoreIdle /\ RunIdle
  /\ recording = FALSE /\ handlers = RegisteredHandlers
  /\ \E E \in SUBSET Kinds : \E deps \in [Kinds -> DependencyLists] :
       config = [k \in Kinds |->
                   [enabled |-> k \in E, trigger |-> "cron",
                    dependencies |-> deps[k]]]
  /\ sorted = NoSorted
  /\ isRunning = FALSE /\ heartbeatInterval = FALSE /\ scheduledTasks = {}
  /\ hb = NoHeartbeat /\ now = 0 /\ lastSyncAt = [k \in Kinds |-> 0]
  /\ lastSuccessAt = [k \in Kinds |-> 0]
  /\ log = {}
  /\ req = NoRequest /\ res = NoResponse /\ events = 0 /\ secret = "secret"
  /\ PullIdle

SortNext == GetEnabledDataObjects

SpecSort == SortInit /\ [][SortNext]_vars

\* ================================================================ Scheduler
\* Scheduler.heartbeat up to its first await: the queue status is read and
\* logged, checkStuckSyncs asks for the first enabled kind's SyncState
HeartbeatCall(h) ==
  IF getEnabledDataObjects(config).val = <<>> THEN h
  ELSE h \cup {getEnabledDataObjects(config).val}

\* Scheduler.setupCronSchedules: a cron task for every enabled kind whose
\* trigger is cron (the schedules of defaults.ts are valid expressions)
CronKinds ==
  {k \in SeqToSet(getEnabledDataObjects(config).val) : config[k].trigger = "cron"}

\* Scheduler.start
Start ==
  IF isRunning THEN UNCHANGED vars
  ELSE /\ Cardinality(hb) < MaxHeartbeats
       /\ isRunning' = TRUE
       /\ scheduledTasks' = CronKinds
       /\ heartbeatInterval' = TRUE
       /\ hb' = HeartbeatCall(hb)
       /\ UNCHANGED <<queueVars, handlers, seen, storeVars, runVars, configVars,
                      hookVars, pullVars, now, lastSyncAt, lastSuccessAt, log>>

\* a stop that also empties the queue
StopAndClear ==
  IF ~isRunning THEN UNCHANGED vars
  ELSE /\ heartbeatInterval' = FALSE
       /\ scheduledTasks' = {}
       /\ isRunning' = FALSE
       /\ queue' = <<>>
       /\ UNCHANGED <<maxConcurrent, running, processing, jobCounter, status,
                      pn, active, syncState, emitted, ret, waiter, recording>>
       /\ UNCHANGED <<handlers, seen, storeVars, runVars, configVars,
                      hookVars, pullVars, hb, now, lastSyncAt, lastSuccessAt, log>>

\* Scheduler.stop
Stop ==
  IF ~isRunning THEN UNCHANGED vars
  ELSE /\ heartbeatInterval' = FALSE
       /\ scheduledTasks' = {}
       /\ isRunning' = FALSE
       /\ UNCHANGED <<queueVars, handlers, seen, storeVars, runVars, configVars,
                      hookVars, pullVars, hb, now, lastSyncAt, lastSuccessAt, log>>

\* a cron task fires: the callback of cron.schedule calls triggerSync
CronFires(dataObject) ==
  /\ dataObject \in scheduledTasks
  /\ TriggerSync(dataObject)

\* the heartbeat timer fires
HeartbeatTick ==
  /\ heartbeatInterval
  /\ Cardinality(hb) < MaxHeartbeats
  /\ hb' = HeartbeatCall(hb)
  /\ UNCHANGED <<queueVars, handlers, seen, storeVars, runVars, configVars,
                 hookVars, pullVars, isRunning, heartbeatInterval, scheduledTasks, now,
                 lastSyncAt, lastSuccessAt, log>>

\* db getSyncState: the upsert has an empty update, the row it returns (or
\* creates with the default values) is the kind's state
getSyncState(dataObject) ==
  [status |-> syncState[dataObject], lastSyncAt |-> lastSyncAt[dataObject]]

\* checkStuckSyncs: the test that leads to the warning
AppearsStuck(state) ==
  /\ state.status = "running"
  /\ (now - state.lastSyncAt) * TickMs > StuckThresholdMs

\* the rest of a heartbeat call once one kind has been looked at
Remaining(h, call) ==
  (h \ {call}) \cup (IF Len(call) = 1 THEN {} ELSE {Tail(call)})

\* a stuck detector that marks the kind failed
HeartbeatResumeFailing(call) ==
  /\ call \in hb
  /\ log' = IF AppearsStuck(getSyncState(Head(call)))
              THEN log \cup {Head(call)} ELSE log
  /\ syncState' = IF AppearsStuck(getSyncState(Head(call)))
                    THEN [syncState EXCEPT ![Head(call)] = "failed"]
                    ELSE syncState
  /\ hb' = Remaining(hb, call)
  /\ UNCHANGED <<maxConcurrent, queue, running, processing, jobCounter, status,
                 pn, active, emitted, ret, waiter, recording>>
  /\ UNCHANGED <<handlers, seen, storeVars, runVars, configVars,
                 hookVars, pullVars, isRunning, heartbeatInterval, scheduledTasks, now,
                 lastSyncAt, lastSuccessAt>>

\* checkStuckSyncs resumes with the SyncState of one kind: a warning when
\* the kind appears stuck, then the next kind
HeartbeatResume(call) ==
  /\ call \in hb
  /\ log' = IF AppearsStuck(getSyncState(Head(call)))
              THEN log \cup {Head(call)} ELSE log
  /\ hb' = Remaining(hb, call)
  /\ UNCHANGED <<queueVars, handlers, seen, storeVars, runVars, configVars,
                 hookVars, pullVars, isRunning, heartbeatInterval, scheduledTasks, now,
                 lastSyncAt, lastSuccessAt>>

\* time passes
TimePasses ==
  /\ now < MaxNow
  /\ now' = now + 1
  /\ UNCHANGED <<queueVars, handlers, seen, storeVars, runVars, configVars,
                 hookVars, pullVars, isRunning, heartbeatInterval, scheduledTasks, hb,
                 lastSyncAt, lastSuccessAt, log>>

\* a stopped scheduler in front of an idle queue; the jobs its cron tasks
\* enqueue are dispatched, run and finish while it ticks
SchedInit ==
  /\ EnvIdle
  /\ QueueInit /\ maxConcurrent = DefaultMaxConcurrent
  /\ StoreIdle /\ RunIdle
  /\ recording = FALSE /\ handlers = RegisteredHandlers

SchedNext ==
  \/ Start
  \/ Stop
  \/ \E k \in Kinds : CronFires(k)
  \/ HeartbeatTick
  \/ \E call \in hb : HeartbeatResume(call)
  \/ TimePasses
  \/ IsSyncRunningRead
  \/ AreDependenciesSatisfiedResume
  \/ GetNextJobResume
  \/ ProcessNextResume
  \/ \E a \in active : MarkSyncStarted(a)
  \/ \E a \in active : SyncReturns(a, TRUE)
  \/ \E a \in active : FinishJob(a)

SpecSched == SchedInit /\ [][SchedNext]_vars

\* ============================================== WebhookServer.processWebhook
\* webhookServer.ts topicToDataObject; a topic outside the table has no kind
Topics == {"orders/create", "products/update", "app/uninstalled"}

topicToDataObject(topic) ==
  CASE topic = "orders/create" -> "orders"
    [] topic = "products/update" -> "products"
    [] topic = "inventory_levels/update" -> "inventory"
    [] OTHER -> "none"

\* request bodies; a request without a body has no rawBody
Bodies == {"b1", "b2"}
NoBody == "none"

\* crypto.createHmac('sha256', key).update(body).digest('base64'): the digest
\* is determined by the key and the body and differs when either differs
HmacSha256(key, body) == <<"hmac", key, body>>

\* the X-Shopify-Hmac-Sha256 header: absent, a digest under the shared secret
\* or under another key, or a text of another length
Missing == <<>>
ShortSignature == <<"short">>
Headers == {Missing, ShortSignature, HmacSha256("forged", "b1")} \cup
           {HmacSha256("secret", b) : b \in Bodies}

\* Buffer.from(text).length: a base64 SHA-256 digest has 44 bytes
ByteLength(h) == IF Len(h) = 3 THEN 44 ELSE 5 * Len(h)

\* webhooks.ts verifyWebhookSignature: "true", "false", or "throws" when
\* timingSafeEqual is given buffers of different lengths
verifyWebhookSignature(body, hmacHeader) ==
  IF secret = "" THEN "true"
  ELSE IF ByteLength(HmacSha256(secret, body)) # ByteLength(hmacHeader) THEN "throws"
  ELSE IF HmacSha256(secret, body) = hmacHeader THEN "true"
  ELSE "false"

\* what processWebhook does with a request before its first await:
\* "throws", "401", "unknown topic", "disabled", "not webhook", or "store"
Route(topic, hmacHeader, body) ==
  LET verdict == IF hmacHeader # Missing /\ body # NoBody
                   THEN verifyWebhookSignature(body, hmacHeader)
                   ELSE "true"
      dataObject == topicToDataObject(topic)
  IN IF verdict = "throws" THEN "throws"
     ELSE IF verdict = "false" THEN "401"
     ELSE IF dataObject = "none" THEN "unknown topic"
     ELSE IF ~config[dataObject].enabled THEN "disabled"
     ELSE IF config[dataObject].trigger # "webhook" THEN "not webhook"
     ELSE "store"

\* the responses a rejected handler promise can lead to: none (the request
\* is left unanswered) or the 500 of the error handler
Unanswered == [status |-> 0, processed |-> FALSE, reason |-> "unanswered"]
ServerError == [status |-> 500, processed |-> FALSE, reason |-> "server error"]

\* a POST arrives and processWebhook runs up to its response or to the await
\* of storeWebhookEvent
WebhookReceived(topic, hmacHeader, body) ==
  /\ req.pc = "idle"
  /\ LET route == Route(topic, hmacHeader, body)
     IN /\ req' = IF route = "store"
                    THEN [pc |-> "storeWebhookEvent", topic |-> topic,
                          hmac |-> hmacHeader, body |-> body]
                    ELSE NoRequest
        /\ IF route = "throws" THEN res' \in {Unanswered, ServerError}
           ELSE IF route = "401"
             THEN res' = [status |-> 401, processed |-> FALSE,
                          reason |-> "Invalid signature"]
           ELSE IF route = "store" THEN res' = NoResponse
           ELSE res' = [status |-> 200, processed |-> FALSE, reason |-> route]
  /\ emitted' = <<>>
  /\ ret' = NoRet
  /\ UNCHANGED <<maxConcurrent, queue, running, processing, jobCounter, status,
                 pn, active, syncState, waiter, recording, handlers, seen>>
  /\ UNCHANGED <<storeVars, runVars, configVars, schedVars, pullVars, events, secret>>

\* storeWebhookEvent resolves: the event row is written, the job is enqueued
\* and the request is answered
StoreWebhookEventResolves ==
  /\ req.pc = "storeWebhookEvent"
  /\ events' = events + 1
  /\ enqueue(topicToDataObject(req.topic), "webhook", HIGH, <<>>)
  /\ res' = [status |-> 200, processed |-> TRUE, reason |-> "none"]
  /\ req' = NoRequest
  /\ UNCHANGED <<configVars, schedVars, pullVars, secret>>

\* a catch block that reports the failure to the provider
StoreWebhookEventRejects500 ==
  /\ req.pc = "storeWebhookEvent"
  /\ res' = ServerError
  /\ req' = NoRequest
  /\ emitted' = <<>>
  /\ ret' = NoRet
  /\ UNCHANGED <<maxConcurrent, queue, running, processing, jobCounter, status,
                 pn, active, syncState, waiter, recording, handlers, seen>>
  /\ UNCHANGED <<storeVars, runVars, configVars, schedVars, pullVars, events, secret>>

\* storeWebhookEvent rejects: the catch block answers 200 all the same
StoreWebhookEventRejects ==
  /\ req.pc = "storeWebhookEvent"
  /\ res' = [status |-> 200, processed |-> FALSE, reason |-> "processing failed"]
  /\ req' = NoRequest
  /\ emitted' = <<>>
  /\ ret' = NoRet
  /\ UNCHANGED <<maxConcurrent, queue, running, processing, jobCounter, status,
                 pn, active, syncState, waiter, recording, handlers, seen>>
  /\ UNCHANGED <<storeVars, runVars, configVars, schedVars, pullVars, events, secret>>

\* a configuration that enables the kinds of E and triggers those of W by
\* webhook
ConfigOf(E, W) ==
  [k \in Kinds |->
     [enabled |-> k \in E,
      trigger |-> IF k \in W THEN "webhook" ELSE "cron",
      dependencies |-> ConfigDependencies(k)]]

\* the kinds the topics of the model map to
HookKinds == {topicToDataObject(t) : t \in Topics} \ {"none"}

\* the webhook server in front of an idle queue, with or without a secret
HookInit ==
  /\ QueueInit /\ maxConcurrent = DefaultMaxConcurrent
  /\ StoreIdle /\ RunIdle
  /\ recording = FALSE /\ handlers = RegisteredHandlers
  /\ config \in {ConfigOf(E \cup {"inventory"}, W) :
                   E \in SUBSET HookKinds, W \in SUBSET HookKinds}
  /\ sorted = NoSorted
  /\ isRunning = FALSE /\ heartbeatInterval = FALSE /\ scheduledTasks = {}
  /\ hb = NoHeartbeat /\ now = 0 /\ lastSyncAt = [k \in Kinds |-> 0]
  /\ lastSuccessAt = [k \in Kinds |-> 0]
  /\ log = {}
  /\ req = NoRequest /\ res = NoResponse /\ events = 0
  /\ secret \in {"", "secret"}
  /\ PullIdle

HookNext ==
  \/ \E t \in Topics : \E h \in Headers : \E b \in Bodies \cup {NoBody} :
       WebhookReceived(t, h, b)
  \/ StoreWebhookEventResolves
  \/ StoreWebhookEventRejects
  \/ GetNextJobResume
  \/ ProcessNextResume
  \/ \E a \in active : WebhookReturns(a, TRUE)
  \/ \E a \in active : FinishJob(a)

SpecHook == HookInit /\ [][HookNext]_vars

\* ================================================================= claims
InRunning(r, id) == \E x \in 1..Len(r) : r[x].id = id
InQueue(q, id) == \E x \in 1..Len(q) : q[x].id = id

\* a dependency of job that areDependenciesSatisfied would find unmet
DepUnmet(q, ss, job) ==
  \E x \in 1..Len(job.dependencies) :
    \/ ss[job.dependencies[x]] = "running"
    \/ DepQueuedAhead(q, job, job.dependencies[x])

\* the pass in flight has already answered "not satisfied" for job
PassRefused(call, job) ==
  /\ call.job.id = job.id
  /\ \/ call.pc = "areDependenciesSatisfied" /\ call.res
     \/ call.pc = "getNextJob" /\ ~call.res

\* C1: Dependency gating (safety): whenever a job enters the running set, no
\* job of any of its declared dependency kinds is in the running set.
C1_DependencyGating ==
  [][\A x \in 1..Len(running') :
       ~InRunning(running, running'[x].id)
         => \A y \in 1..Len(running') :
              running'[y].dataObject \notin SeqToSet(running'[x].dependencies)]_vars

\* C2: Priority ordering: when the dispatch scan takes a NORMAL job out of the
\* queue to start it, no HIGH job of a different kind without dependencies,
\* enqueued after it, is waiting in the queue (the HIGH job dispatches first).
C2_PriorityOrdering ==
  [][(pn.pc = "getNextJob" /\ pn.res /\ pn'.pc = "processNext")
       => ~\E x \in 1..Len(queue) :
             /\ queue[x].priority < pn.job.priority
             /\ queue[x].dataObject # pn.job.dataObject
             /\ queue[x].id > pn.job.id
             /\ Len(queue[x].dependencies) = 0]_vars

\* C3: Dependency gating (liveness): when a running job finishes and a queued
\* job that depends on its kind is blocked by nothing else, a processing pass
\* that will evaluate the dependent runs from that completion on (the
\* completion does not coincide with a pass that has already refused it).
C3_DependentStartedOnCompletion ==
  [][\A x \in 1..Len(running) : \A y \in 1..Len(queue) :
       ( /\ ~InRunning(running', running[x].id)
         /\ running[x].dataObject \in SeqToSet(queue[y].dependencies)
         /\ ~InRunning(running, queue[y].id)
         /\ InQueue(queue', queue[y].id)
         /\ Len(running') < maxConcurrent
         /\ ~DepUnmet(queue', syncState', queue[y]) )
       => (pn'.pc # "idle" /\ ~PassRefused(pn', queue[y]))]_vars
\* the jobs that are queued or running
LiveJobs == SeqToSet(queue) \cup SeqToSet(running)

\* an enqueue that found a job of its (kind, job kind) queued or running
\* returned that job's id and changed neither the queue nor the running set
EnqueueDedupFrame ==
  [][(ret'.op = "enqueue"
        /\ \E j \in LiveJobs : j.dataObject = ret'.dataObject /\ j.type = ret'.type)
       => /\ \E j \in LiveJobs : /\ j.dataObject = ret'.dataObject
                                 /\ j.type = ret'.type
                                 /\ j.id = ret'.val
          /\ queue' = queue
          /\ running' = running
          /\ status' = status]_vars

\* at most one job per (kind, job kind) is queued or running
OneJobPerKindAndType ==
  \A j1, j2 \in LiveJobs :
    (j1.dataObject = j2.dataObject /\ j1.type = j2.type) => j1.id = j2.id

\* C4: Enqueue idempotence: an enqueue for a (kind, job kind) that is already
\* queued or running returns the existing id and leaves queue and running set
\* unchanged; hence at most one job per (kind, job kind) is queued or running.
C4_EnqueueIdempotence == EnqueueDedupFrame /\ []OneJobPerKindAndType

\* C5: At most one running job per kind: no two jobs of the running set have
\* the same data-object kind, whatever maxConcurrent is.
C5_OneRunningJobPerKind ==
  \A x, y \in 1..Len(running) :
    running[x].dataObject = running[y].dataObject => x = y

\* C6: Concurrency bound: the running set never holds more than maxConcurrent
\* jobs.
C6_ConcurrencyBound == Len(running) <= maxConcurrent

\* C6 witness: the running set is full and a dispatchable job is kept waiting
C6_Witness ==
  /\ Len(running) = maxConcurrent
  /\ pn.pc = "idle"
  /\ \E x \in 1..Len(queue) : ~DepUnmet(queue, syncState, queue[x])
\* the step announces the end of a job: completed, failed or cancelled
EndOfJob(e) == /\ Len(e) > 0
               /\ e[1][1] \in {"job:completed", "job:failed", "job:cancelled"}

\* C7: Idle wait: waitForIdle resolves true at once on an idle queue; a
\* pending wait resolves true at the step that ends the last job (completed,
\* failed, cancelled or cleared) and so leaves queue and running set both
\* empty; the timeout answers false only while a job is queued or running;
\* the wait never resolves true while a job is queued or running.
C7_IdleWait ==
  /\ [][(ret'.op = "waitForIdle" /\ IsIdle) => waiter' = "resolvedTrue"]_vars
  /\ [][(waiter = "waiting" /\ EndOfJob(emitted') /\ IsIdle')
          => waiter' = "resolvedTrue"]_vars
  /\ [][(waiter = "waiting" /\ waiter' = "resolvedFalse") => ~IsIdle]_vars
  /\ [][(waiter # "resolvedTrue" /\ waiter' = "resolvedTrue") => IsIdle']_vars

\* the ids of the jobs a step took out of the queue
Removed(q, q2) == {j.id : j \in SeqToSet(q)} \ {j.id : j \in SeqToSet(q2)}

CancelOps == {"cancel", "cancelAll", "clear"}

C9_Bijection ==
  \A k \in StoreKinds : \A r1, r2 \in store :
    (r1.dataObject = k /\ r2.dataObject = k /\ r1 # r2)
      => (r1.externalId # r2.externalId /\ r1.shopifyId # r2.shopifyId)

\* an upsert of a second externalId onto a mapped shopifyId has been refused
C9_Witness ==
  /\ ret.op = "upsertIdMapping" /\ ret.val = 0
  /\ \E r \in store : r.dataObject = ret.dataObject /\ r.externalId # ret.type
  /\ Cardinality(store) >= 2

\* the externalIds of a list of sync items
ExternalIdsOf(items) == [x \in 1..Len(items) |-> items[x].externalId]

\* C10: Delta correctness: detectDeltas puts every source item in exactly one
\* of toCreate and toUpdate, in source order: toUpdate, with the mapped
\* shopifyId, iff its externalId has a mapping of the kind, toCreate otherwise;
\* toDelete is the set of mapped externalIds absent from the source under mode
\* sync and is empty under mode overwrite.
C10_DeltaCorrectness ==
  deltas.dataObject # "none" =>
    LET k == deltas.dataObject
        Mapped(e) == \E r \in store : r.dataObject = k /\ r.externalId = e
    IN /\ ExternalIdsOf(deltas.toCreate) = SelectSeq(source, LAMBDA e : ~Mapped(e))
       /\ ExternalIdsOf(deltas.toUpdate) = SelectSeq(source, LAMBDA e : Mapped(e))
       /\ Len(deltas.toCreate) + Len(deltas.toUpdate) = Len(source)
       /\ \A x \in 1..Len(deltas.toUpdate) :
            Row(k, deltas.toUpdate[x].externalId, deltas.toUpdate[x].shopifyId) \in store
       /\ deltas.toDelete =
            IF mode = "sync"
              THEN {e \in ExternalIds : Mapped(e) /\ e \notin SeqToSet(source)}
              ELSE {}

\* source {A, B} against the mappings A -> x1, C -> x3 under mode sync
C10_Witness ==
  /\ {r \in store : r.dataObject = "products"}
       = {Row("products", "A", "x1"), Row("products", "C", "x3")}
  /\ source = <<"A", "B">> /\ mode = "sync"
  /\ deltas.dataObject = "products"
  /\ deltas.toCreate = <<[externalId |-> "B"]>>
  /\ deltas.toUpdate = <<[externalId |-> "A", shopifyId |-> "x1"]>>
  /\ deltas.toDelete = {"C"}

\* the same snapshot under mode overwrite: nothing to delete
C10_WitnessOverwrite ==
  /\ {r \in store : r.dataObject = "products"}
       = {Row("products", "A", "x1"), Row("products", "C", "x3")}
  /\ source = <<"A", "B">> /\ mode = "overwrite"
  /\ deltas.dataObject = "products"
  /\ deltas.toCreate = <<[externalId |-> "B"]>>
  /\ deltas.toDelete = {}
SyncThrew(a) ==
  /\ a \in active /\ a.pc = "sync" /\ a \notin active'
  /\ [a EXCEPT !.pc = "returning", !.ok = FALSE] \in active'

\* the activation a of a sync job whose handler rethrew resumes in startJob
FailedSyncEnds(a) ==
  /\ a \in active /\ a.pc = "returning" /\ ~a.ok /\ a.job.type = "sync"
  /\ a \notin active'

\* C12: Job-level failure.  When sync() throws, handleSync writes SyncState
\* failed for the kind; when the handler's rejection reaches startJob the job
\* gets status failed, job:failed is emitted for it, it is in neither the
\* running map nor the queue afterwards, and a failed job is never started again.
C12_JobLevelFailure ==
  [][/\ \A a \in active :
          SyncThrew(a) => syncState'[a.job.dataObject] = "failed"
     /\ \A a \in active :
          FailedSyncEnds(a) =>
            /\ status'[a.job.id] = "failed"
            /\ emitted' = << <<"job:failed", a.job.id>> >>
            /\ ~InRunning(running', a.job.id)
            /\ ~InQueue(queue', a.job.id)
     /\ \A id \in DOMAIN status :
          status[id] = "failed" => status'[id] = "failed"]_vars


\* the step in which processNext resumes with a job whose kind has no
\* registered handler and calls startJob
NoHandlerStart ==
  /\ pn.pc = "processNext" /\ pn.job # NoJob /\ pn.job.dataObject \notin handlers
  /\ pn' # pn

\* C15: Handler not registered.  When startJob is entered with a job whose
\* kind has no handler, the job gets status failed and job:failed is emitted
\* for it, the running map is unchanged and never holds a job of such a kind,
\* the job is no longer in the queue (nothing dispatches it again), and the
\* same pass evaluates its loop head again: it scans the queue when there is a
\* free slot and a queued job.
C15_NoHandler ==
  /\ [][NoHandlerStart =>
          /\ status'[pn.job.id] = "failed"
          /\ emitted' = << <<"job:failed", pn.job.id>> >>
          /\ running' = running
          /\ ~InQueue(queue', pn.job.id)
          /\ (Len(running) < maxConcurrent /\ Len(queue) > 0)
                => (processing' /\ pn' = ScanAt(queue, 1))]_vars
  /\ [](\A x \in 1..Len(running) : running[x].dataObject \in handlers)


\* the items for which the processor throws or returns success false
FailingSubset == {x \in 1..Len(work) : work[x].fate \in {"skipped", "thrown"}}

\* C14: Partial batch failure stats.  When processBatch returns, the processor
\* was invoked on every item and every callback has finished, processed is
\* the number of items, failed is the number of items whose processor threw or
\* returned success false, and succeeded is processed - failed, whatever the
\* order in which the items of a slice settled.
C14_BatchStats ==
  (run.pc = "returned" /\ run.kind = "none") =>
    /\ \A x \in 1..Len(work) : work[x].pc = "done" /\ work[x].result = work[x].fate
    /\ stats.processed = Len(work)
    /\ stats.failed = Cardinality(FailingSubset)
    /\ stats.succeeded = stats.processed - stats.failed

C14_Witness ==
  /\ run.pc = "returned" /\ run.kind = "none" /\ run.batchSize = 2
  /\ Len(work) = MaxItems
  /\ work[1].fate = "thrown" /\ work[Len(work)].fate = "skipped"
  /\ stats.failed = 2 /\ stats.succeeded = Len(work) - 2


\* the items of the run whose processing failed
FailedItems == {x \in 1..Len(work) : work[x].result \in {"skipped", "thrown"}}

\* C13: Item failures never fail the job.  A call of sync() that reached
\* per-item processing returns stats (it throws only before any item was
\* handed to processBatch), the stats count every item and every failure, and
\* the job of such a call ends with SyncState idle and status completed,
\* whatever subset of the items failed.
C13_ItemFailuresDoNotFailJob ==
  /\ [](run.pc = "threw" => work = <<>>)
  /\ [](run.pc \in {"returned", "resolved"} =>
          /\ \A x \in 1..Len(work) : work[x].pc = "done"
          /\ stats.processed = Len(work)
          /\ stats.failed = Cardinality(FailedItems)
          /\ stats.succeeded = stats.processed - stats.failed)
  /\ [][(run.pc = "returned" /\ run'.pc # "returned")
          => (run'.pc = "resolved" /\ syncState'[run.kind] = "idle")]_vars
  /\ [][\A a \in active :
          (a.pc = "returning" /\ a \notin active' /\ run.pc = "resolved")
            => (status'[a.job.id] = "completed" /\ syncState'[run.kind] = "idle")]_vars

C13_Witness ==
  /\ run.pc = "resolved" /\ active = {}
  /\ Len(work) = 2 /\ stats.failed = 2 /\ stats.succeeded = 0
  /\ \E id \in DOMAIN status : status[id] = "completed"
  /\ syncState[run.kind] = "idle"


\* C16: Mapping deletion.  When a run under mode sync has returned, no
\* mapping is left for any externalId of its delete set and the remote record
\* that was mapped to it is gone; under mode overwrite no step removes the
\* mapping of an externalId.
C16_MappingDeletion ==
  /\ []((run.pc = "returned" /\ mode = "sync") =>
          \A e \in deltas.toDelete :
            /\ getShopifyId(store, run.kind, e) = Undefined
            /\ ~\E r \in remote, m \in ManagedRows(run.kind) :
                  m.externalId = e /\ r.id = m.shopifyId)
  /\ [][mode = "overwrite" =>
          \A r \in store : getShopifyId(store', r.dataObject, r.externalId) # Undefined]_vars


\* C20: Unchanged narrowing.  A run issues a remote update only for an item
\* whose content differs from the remote record, and when the processor has
\* settled for a mapped item whose content is unchanged the item is counted in
\* unchanged and not in updated.
C20_UnchangedNarrowing ==
  /\ [](\A c \in calls : c.op = "update" => c.key \in changed)
  /\ [](run.pc = "returned" =>
          /\ stats.unchanged =
               Cardinality({x \in 1..Len(work) :
                              work[x].action = "update" /\ work[x].externalId \notin changed})
          /\ \A x \in 1..Len(work) :
               work[x].result = "updated" => work[x].externalId \in changed)


Distinct(items) == \A x, y \in 1..Len(items) : items[x] = items[y] => x = y

\* C19: Idempotent across runs.  When the previous call of sync() returned
\* with no failed item and the source (distinct externalIds) is the same, the
\* next call finds nothing to create, classifies every source item as update
\* with the shopifyId the mapping store held when the previous call ended,
\* creates no remote record and leaves the mapping store as it was.
C19_IdempotentRerun ==
  (/\ run.n >= 2 /\ run.pc # "threw"
   /\ prev.completed /\ prev.failed = 0 /\ Distinct(source))
    => /\ Len(deltas.toCreate) = 0
       /\ Len(work) = Len(source)
       /\ \A x \in 1..Len(work) :
            /\ work[x].action = "update"
            /\ work[x].externalId = source[x]
            /\ work[x].shopifyId = getShopifyId(prev.store, run.kind, source[x])
       /\ \A c \in calls : c.op # "create"
       /\ remote = prev.remote
       /\ store = prev.store

C19_Witness ==
  /\ run.n = 2 /\ run.pc = "returned"
  /\ prev.completed /\ prev.failed = 0 /\ Distinct(source)
  /\ Len(work) = 2 /\ stats.updated = 2
  /\ \E r \in prev.store : r \notin ManagedRows(run.kind)

\* the remote records that have the natural key of item x: the handle of a
\* product, the title of a catalog whatever its case
NaturalKeyMatches(x) ==
  {r \in remote : IF run.kind = "catalogs"
                    THEN toLowerCase(r.key) = toLowerCase(work[x].externalId)
                    ELSE r.key = work[x].externalId}

CreateCalls == {"createProduct", "createCatalog"}

\* C17: Adoption.  Under adopt or adopt_and_archive, when the lookup of
\* createInShopify has resolved for an item, the handler goes on to a remote
\* create only if no remote record has the item's natural key; otherwise it
\* takes the id of such a record, and the mapping written for the item is
\* externalId -> that id.
C17_Adoption ==
  [][\A x \in 1..Len(work) :
       behavior # "ignore" =>
         /\ (work[x].pc \in {"findProductByHandle", "getCatalogs"} /\ work'[x].pc # work[x].pc)
              => IF NaturalKeyMatches(x) = {}
                   THEN work'[x].pc \in CreateCalls
                   ELSE /\ work'[x].pc \notin CreateCalls
                        /\ \E r \in NaturalKeyMatches(x) : work'[x].shopifyId = r.id
         /\ (work[x].pc \in {"adopt", "createIdMapping"} /\ work'[x].pc \notin {work[x].pc, "result"})
              => Row(run.kind, work[x].externalId, work[x].shopifyId) \in store']_vars


\* C18: Ignore policy.  Under the policy ignore no step of a run gives an
\* item the id of a remote record that existed before the step (an id comes
\* from the item's mapping or from the remote create made for the item), and
\* every mapping row a step writes is for an item the run created remotely.
C18_IgnorePolicy ==
  [][behavior = "ignore" =>
       /\ \A x \in 1..Len(work) :
            (work[x].shopifyId = Undefined /\ work'[x].shopifyId # Undefined)
              => ~\E r \in remote : r.id = work'[x].shopifyId
       /\ \A m \in store' \ store :
            \E c \in calls : c.op = "create" /\ c.key = m.externalId]_vars


\* C25: Queue order invariant.  In every reachable state the queue is sorted
\* by priority (a smaller number is a higher priority) and, among jobs of
\* equal priority, by arrival (job ids are given out in arrival order).
C25_QueueOrdered ==
  \A x, y \in 1..Len(queue) :
    x < y => \/ queue[x].priority < queue[y].priority
             \/ /\ queue[x].priority = queue[y].priority
                /\ queue[x].id < queue[y].id

C25_Witness ==
  /\ Len(queue) = 2
  /\ queue[1].priority = HIGH /\ queue[2].priority = NORMAL
  /\ queue[1].id > queue[2].id

\* ------------------------------------------------------------------ C24
\* a sync job of the kind is in the running map
SyncRunning(r, k) ==
  \E i \in 1..Len(r) : r[i].dataObject = k /\ r[i].type = "sync"

\* a sync job of the kind is queued at HIGH priority ahead of every NORMAL
\* and LOW job
SyncQueuedHigh(q, k) ==
  \E i \in 1..Len(q) :
    /\ q[i].dataObject = k /\ q[i].type = "sync" /\ q[i].priority = HIGH
    /\ \A j \in 1..Len(q) : q[j].priority \in {NORMAL, LOW} => i < j

\* C24: Immediate sync.  From any queue state, after triggerImmediateSync(kind)
\* on an enabled kind a sync job of the kind is running or is queued at HIGH
\* priority ahead of every NORMAL and LOW job; on a disabled kind the call
\* leaves the queue unchanged.
C24_ImmediateSync ==
  [][\A k \in Kinds :
       TriggerImmediateSync(k) =>
         IF config[k].enabled
           THEN SyncRunning(running', k) \/ SyncQueuedHigh(queue', k)
           ELSE queue' = queue /\ running' = running]_vars
\* ------------------------------------------------------------------ C30
\* the step is a call of cancel, cancelAll or clear
Cancelling ==
  \/ \E id \in 1..MaxJobs : Cancel(id)
  \/ \E k \in Kinds : CancelAll(k)
  \/ Clear

\* the dispatch loop takes the job out of the queue to start it
LoopTakes(job) ==
  /\ pn.pc = "getNextJob" /\ pn.res
  /\ pn'.pc = "processNext" /\ pn'.job = job

\* C30: No job is lost.  A job leaves the queue only by being the job the
\* dispatch loop takes to start, or by cancel, cancelAll or clear; whatever
\* enqueue and cancel calls ran while the scan was suspended, the job the
\* loop removes is the job it starts and no other queued job is dropped.
C30_NoJobLost ==
  [][\A x \in 1..Len(queue) :
       ~InQueue(queue', queue[x].id) => LoopTakes(queue[x]) \/ Cancelling]_vars
\* ------------------------------------------------------------------ C26
\* position of the first queued job whose dependencies are all satisfied,
\* 0 when there is none
FirstQualifying(q, ss) == FirstIndex(q, LAMBDA j : ~DepUnmet(q, ss, j))

\* the dispatch scan ends without a job
LoopFindsNone ==
  /\ pn.pc = "getNextJob" /\ ~pn.res
  /\ pn'.pc = "processNext" /\ pn'.job = NoJob

\* C26: Dispatch choice.  Whenever the loop takes a job to start it, the job
\* is the first job in queue order whose dependencies are all satisfied (none
\* running, none queued at equal or higher priority), and the queue keeps
\* every other job in place; when the scan ends without a job, no queued job
\* qualifies.
C26_DispatchChoice ==
  [][/\ (pn.pc = "getNextJob" /\ pn.res /\ pn'.pc = "processNext")
          => /\ FirstQualifying(queue, syncState) # 0
             /\ queue[FirstQualifying(queue, syncState)] = pn'.job
             /\ queue' = SpliceOut(queue, FirstQualifying(queue, syncState))
     /\ LoopFindsNone => FirstQualifying(queue, syncState) = 0]_vars
\* ------------------------------------------------------------ C21 .. C23
\* the header is the HMAC-SHA256 of the raw body under the shared secret
Verified(hmacHeader, body) ==
  /\ secret # "" /\ body # NoBody
  /\ hmacHeader = HmacSha256(secret, body)

\* C21: Webhook authenticity.  An event is stored and a job enqueued only for
\* a request whose signature was verified against the shared secret; a
\* request with an incorrect or missing signature is answered with the
\* authentication failure (401), goes no further and leaves the queue
\* unchanged.
C21_WebhookAuthenticity ==
  [][/\ \A t \in Topics : \A h \in Headers : \A b \in Bodies \cup {NoBody} :
          (WebhookReceived(t, h, b) /\ ~Verified(h, b))
            => res'.status = 401 /\ req'.pc = "idle" /\ queue' = queue
     /\ StoreWebhookEventResolves => Verified(req.hmac, req.body)]_vars

\* the webhook jobs of q that are not in p
NewJobs(p, q) == SeqToSet(q) \ SeqToSet(p)

\* C22: Webhook enqueue.  A request with a valid signature and a topic whose
\* kind is enabled and webhook-triggered adds exactly one new HIGH-priority
\* webhook job of the mapped kind to the queue (once its event is stored); a
\* request with an unknown topic, a disabled kind or a kind that is not
\* webhook-triggered adds no job.
C22_WebhookEnqueue ==
  [][/\ (StoreWebhookEventResolves /\ Verified(req.hmac, req.body))
          => /\ Len(queue') = Len(queue) + 1
             /\ \E j \in NewJobs(queue, queue') :
                  /\ NewJobs(queue, queue') = {j}
                  /\ j.type = "webhook" /\ j.priority = HIGH
                  /\ j.dataObject = topicToDataObject(req.topic)
     /\ \A t \in Topics : \A h \in Headers : \A b \in Bodies \cup {NoBody} :
          ( /\ WebhookReceived(t, h, b)
            /\ Route(t, h, b) \in {"unknown topic", "disabled", "not webhook"} )
            => queue' = queue /\ req'.pc = "idle"]_vars

\* C23: Webhook acknowledgement.  Every request that passes the signature
\* check is answered with 200: at once when its topic is not processed, and
\* after storeWebhookEvent whether that call succeeded or failed.
C23_WebhookAcknowledged ==
  [][/\ \A t \in Topics : \A h \in Headers : \A b \in Bodies \cup {NoBody} :
          ( /\ WebhookReceived(t, h, b)
            /\ Route(t, h, b) \notin {"throws", "401"} )
            => res'.status = 200 \/ req'.pc = "storeWebhookEvent"
     /\ (req.pc = "storeWebhookEvent" /\ req'.pc = "idle") => res'.status = 200]_vars

\* C23 witness: storing the event failed and the request was answered 200
C23_Witness ==
  /\ res.status = 200 /\ res.reason = "processing failed"
  /\ req.pc = "idle" /\ events = 0 /\ queue = <<>>
\* ------------------------------------------------------------------ C27
EnabledKinds == {k \in Kinds : config[k].enabled}

\* kind a declares the enabled kind b as a dependency
DependsOn(a, b) == b \in SeqToSet(config[a].dependencies) \cap EnabledKinds

\* the dependencies among the enabled kinds contain a cycle
Cyclic ==
  \E n \in 1..Cardinality(Kinds) : \E p \in [1..(n + 1) -> EnabledKinds] :
    /\ p[1] = p[n + 1]
    /\ \A x \in 1..n : DependsOn(p[x], p[x + 1])

PositionIn(seq, k) == CHOOSE x \in 1..Len(seq) : seq[x] = k

\* C27: Dependency ordering of kinds.  For a configuration whose dependencies
\* among enabled kinds are acyclic, getEnabledDataObjects returns a
\* permutation of exactly the enabled kinds in which every kind comes after
\* each of its enabled dependencies (dependencies on disabled kinds are
\* ignored); when they contain a cycle it raises an error.
C27_DependencyOrder ==
  sorted.called =>
    IF Cyclic THEN sorted.threw
    ELSE /\ ~sorted.threw
         /\ Len(sorted.val) = Cardinality(EnabledKinds)
         /\ SeqToSet(sorted.val) = EnabledKinds
         /\ \A a, b \in EnabledKinds :
              DependsOn(a, b)
                => PositionIn(sorted.val, b) < PositionIn(sorted.val, a)

\* C27 witness: all kinds enabled, a dependency on a later key, and a result
\* that is not the key order
C27_Witness ==
  /\ sorted.called /\ ~sorted.threw
  /\ EnabledKinds = Kinds
  /\ DependsOn("products", "orders")
  /\ sorted.val = <<"orders", "products", "inventory">>
\* ------------------------------------------------------------------ C28
\* the step belongs to a heartbeat: the timer fires, start makes its first
\* call, or a call in flight resumes with a kind's SyncState
HeartbeatStep ==
  \/ HeartbeatTick
  \/ Start
  \/ \E call \in hb : HeartbeatResume(call)

\* C28: Heartbeat is log-only.  No step of a heartbeat, the detection of a
\* stuck kind included, cancels, fails, retries or enqueues a job or changes
\* a SyncState: queue, running set, job statuses and the kinds' status and
\* lastSyncAt are the same before and after.
C28_HeartbeatLogOnly ==
  [][HeartbeatStep
       => UNCHANGED <<queue, running, status, active, jobCounter, pn,
                      processing, syncState, lastSyncAt>>]_vars

\* C28 witness: a heartbeat has warned about a stuck kind and is over; the
\* kind's job is still running and its status is still running
C28_Witness ==
  \E k \in Kinds :
    /\ k \in log /\ hb = {}
    /\ syncState[k] = "running" /\ SyncRunning(running, k)
    /\ (now - lastSyncAt[k]) * TickMs > StuckThresholdMs

\* ------------------------------------------------------------------ C29
\* a stopped scheduler has no heartbeat timer and no cron task
StoppedHasNoTimers ==
  ~isRunning => ~heartbeatInterval /\ scheduledTasks = {}

StatusTransitions ==
  { <<"none", "queued">>, <<"queued", "running">>, <<"running", "completed">>,
    <<"running", "failed">>, <<"queued", "cancelled">>, <<"queued", "failed">> }

\* the step invokes the handler of the job with this id
HandlerInvoked(id) ==
  \E a \in active' \ active : a.job.id = id /\ a.pc = "start"

\* C31: Each job runs at most once.  A handler is invoked only for a job
\* whose status is queued (so never for a job started before), and a status
\* changes only along queued -> running, running -> completed, running ->
\* failed, queued -> cancelled and queued -> failed; completed, failed and
\* cancelled are final.
C31_RunsAtMostOnce ==
  [][\A id \in 1..MaxJobs :
       /\ HandlerInvoked(id) => status[id] = "queued"
       /\ status'[id] # status[id]
            => <<status[id], status'[id]>> \in StatusTransitions]_vars

\* ------------------------------------------------------------------ C32
\* C32: A cancelled job never runs.  No step invokes the handler of a job
\* whose status is cancelled, and no step moves such a job to the running
\* set, wherever the cancellation fell relative to the dispatch loop.
C32_CancelledNeverRuns ==
  [][\A id \in 1..MaxJobs :
       status[id] = "cancelled"
         => /\ ~HandlerInvoked(id)
            /\ InRunning(running', id) => InRunning(running, id)
            /\ status'[id] = "cancelled"]_vars

\* ------------------------------------------------------------------ C39
\* C39: Queue/running consistency.  In every reachable state no job is both
\* in the queue and in the running set, every queued job has status queued
\* and every job of the running set has status running, and no job is
\* listed twice.
C39_QueueRunningConsistent ==
  /\ \A x \in 1..Len(queue) : ~InRunning(running, queue[x].id)
  /\ \A x \in 1..Len(queue) : status[queue[x].id] = "queued"
  /\ \A x \in 1..Len(running) : status[running[x].id] = "running"
  /\ \A x, y \in 1..Len(queue) : queue[x].id = queue[y].id => x = y
  /\ \A x, y \in 1..Len(running) : running[x].id = running[y].id => x = y

\* ============================================== the SyncState life cycle
\* an idle queue and idle SyncState rows; sync jobs and webhook jobs of the
\* kinds are enqueued, dispatched, run and finish, at a clock reading later
\* than the timestamps of the rows
SyncInit ==
  /\ QueueInit /\ StoreIdle /\ RunIdle
  /\ recording = FALSE /\ handlers = RegisteredHandlers
  /\ config = ConfigOf(Kinds, HookKinds)
  /\ sorted = NoSorted
  /\ isRunning = FALSE /\ heartbeatInterval = FALSE /\ scheduledTasks = {}
  /\ hb = NoHeartbeat /\ now = MaxNow - 1 /\ lastSyncAt = [k \in Kinds |-> 0]
  /\ lastSuccessAt = [k \in Kinds |-> 0]
  /\ log = {}
  /\ req = NoRequest /\ res = NoResponse /\ events = 0 /\ secret = "secret"
  /\ PullIdle

SyncNext ==
  \/ \E k \in Kinds : TriggerSync(k)
  \/ \E k \in HookKinds : WebhookEnqueue(k)
  \/ IsSyncRunningRead
  \/ AreDependenciesSatisfiedResume
  \/ GetNextJobResume
  \/ ProcessNextResume
  \/ \E a \in active : MarkSyncStarted(a)
  \/ \E a \in active : \E ok \in BOOLEAN : SyncReturns(a, ok)
  \/ \E a \in active : WebhookReturns(a, TRUE)
  \/ \E a \in active : FinishJob(a)

SpecSync == SyncInit /\ [][SyncNext]_vars

\* ------------------------------------------------------------------ C36
\* a sync job of the kind is between its markSyncStarted and the end of its
\* sync()
SyncActive(acts, k) ==
  \E a \in acts : a.job.type = "sync" /\ a.job.dataObject = k /\ a.pc = "sync"

\* the kind's status is running only while a sync job of the kind is at work
RunningOnlyInSync ==
  \A k \in Kinds : syncState[k] = "running" => SyncActive(active, k)

\* the step in which the handler invocation a leaves sync(), with outcome ok
SyncEnds(a, ok) ==
  /\ a \in active /\ a.job.type = "sync" /\ a.pc = "sync"
  /\ [a EXCEPT !.pc = "returning", !.ok = ok] \in active'

\* the step in which the queue records the job of invocation a as finished
QueueRecordsFinished(a) ==
  /\ a \in active /\ a \notin active'
  /\ \A b \in active' : b.aid # a.aid
  /\ status'[a.job.id] \in {"completed", "failed"}

WebhookActive(acts, k) ==
  \E a \in acts : a.job.type = "webhook" /\ a.job.dataObject = k

\* a handler invocation of a sync job of the kind is in flight
SyncInFlight(acts, k) ==
  \E a \in acts : a.job.type = "sync" /\ a.job.dataObject = k

\* the step starts, runs or finishes the webhook job of invocation a
WebhookJobStep(a) ==
  /\ a.job.type = "webhook"
  /\ \/ a \in active' \ active
     \/ a \in active /\ WebhookReturns(a, TRUE)
     \/ a \in active /\ FinishJob(a)

\* C37: Webhook jobs leave SyncState unchanged.  No step that starts, runs
\* or finishes a webhook job writes the status, lastSyncAt or lastSuccessAt
\* of any kind, and the dependency check's read of isSyncRunning answers
\* false for a kind of which a webhook job, and no sync job, is being handled.
C37_WebhookLeavesSyncState ==
  [][/\ \A a \in active \cup active' :
          WebhookJobStep(a) => UNCHANGED <<syncState, lastSyncAt, lastSuccessAt>>
     /\ \A k \in Kinds :
          (/\ pn.pc = "isSyncRunning" /\ pn'.pc = "areDependenciesSatisfied"
           /\ pn.job.dependencies[pn.d] = k
           /\ WebhookActive(active, k) /\ ~SyncInFlight(active, k))
            => ~pn'.res]_vars

\* C37 witness: the dependency check of an inventory job has answered false
\* for products while a webhook job of products, whose handler has returned,
\* was the only job of products in flight, and the status of products is idle
C37_Witness ==
  /\ pn.pc = "areDependenciesSatisfied" /\ ~pn.res
  /\ pn.job.dependencies[pn.d] = "products"
  /\ \E a \in active :
       a.job.type = "webhook" /\ a.job.dataObject = "products" /\ a.pc = "returning"
  /\ ~SyncInFlight(active, "products")
  /\ syncState["products"] = "idle"

\* ============================================== Scheduler.triggerAllSyncs
\* the part of the queue that a call of enqueue reads and writes
QueueOf(q, st, call, counter) ==
  [queue |-> q, status |-> st, pn |-> call, jobCounter |-> counter,
   queued |-> <<>>]

\* jobQueue.enqueue(dataObject, 'sync', {priority: NORMAL, dependencies}) as
\* triggerSync calls it, on the queue as the calls before it left it
enqueueSync(jq, dataObject, dependencies) ==
  LET job == NewJob(jq.jobCounter + 1, dataObject, "sync", NORMAL, dependencies)
      existing == findJob(jq.queue, running, dataObject, "sync")
      q == InsertByPriority(jq.queue, job)
  IN IF existing # NoJob
       THEN [jq EXCEPT !.jobCounter = @ + 1]
       ELSE [queue |-> q,
             status |-> [jq.status EXCEPT ![job.id] = "queued"],
             pn |-> IF jq.pn.pc # "idle" THEN jq.pn ELSE LoopEnter(q, running),
             jobCounter |-> jq.jobCounter + 1,
             queued |-> Append(jq.queued, <<"job:queued", job.id>>)]

\* a loop that walks the list of kinds from its end
RECURSIVE TriggerEachBackwards(_, _, _, _)
TriggerEachBackwards(cfg, kinds, p, jq) ==
  IF p > Len(kinds) THEN jq
  ELSE LET k == kinds[Len(kinds) + 1 - p]
       IN TriggerEachBackwards(cfg, kinds, p + 1,
                               IF cfg[k].trigger = "cron"
                                 THEN enqueueSync(jq, k, cfg[k].dependencies)
                                 ELSE jq)

\* the loop of triggerAllSyncs from the kind at position p on: triggerSync
\* for the kinds whose trigger is cron (every kind of the list is enabled)
RECURSIVE TriggerEach(_, _, _, _)
TriggerEach(cfg, kinds, p, jq) ==
  IF p > Len(kinds) THEN jq
  ELSE TriggerEach(cfg, kinds, p + 1,
                   IF cfg[kinds[p]].trigger = "cron"
                     THEN enqueueSync(jq, kinds[p], cfg[kinds[p]].dependencies)
                     ELSE jq)

\* the enabled kinds whose trigger is cron, in the order of the list
CronOrder(cfg, kinds) == SelectSeq(kinds, LAMBDA k : cfg[k].trigger = "cron")

\* Scheduler.triggerAllSyncs: no await between the calls of enqueue; a
\* circular dependency makes getEnabledDataObjects throw before any of them
TriggerAllSyncs ==
  LET enabledObjects == getEnabledDataObjects(config)
      jq == TriggerEach(config, enabledObjects.val, 1,
                        QueueOf(queue, status, pn, jobCounter))
  IN /\ ~enabledObjects.threw
     /\ CronOrder(config, enabledObjects.val) # <<>>
     /\ jobCounter + Len(CronOrder(config, enabledObjects.val)) <= MaxJobs
     /\ queue' = jq.queue
     /\ status' = jq.status
     /\ pn' = jq.pn
     /\ processing' = (jq.pn.pc # "idle")
     /\ jobCounter' = jq.jobCounter
     /\ emitted' = Emitted(jq.queued)
     /\ ret' = Returned([op |-> "triggerAllSyncs", dataObject |-> "none",
                         type |-> "sync", val |-> Len(jq.queued)])
     /\ UNCHANGED <<maxConcurrent, running, active, syncState, waiter,
                    recording, handlers, seen>>
     /\ UNCHANGED <<storeVars, runVars, envVars>>

\* dependency lists in key order: up to MaxDeps kinds
OrderedDependencyLists ==
  {SelectSeq(KindOrder, LAMBDA k : k \in D) :
     D \in {X \in SUBSET Kinds : Cardinality(X) <= MaxDeps}}

\* a configuration: the enabled kinds E, the webhook-triggered kinds W, the
\* dependency lists deps
ConfigWith(E, W, deps) ==
  [k \in Kinds |->
     [enabled |-> k \in E,
      trigger |-> IF k \in W THEN "webhook" ELSE "cron",
      dependencies |-> deps[k]]]

\* an empty idle queue with maxConcurrent = 1 under any configuration whose
\* cron-triggered enabled kinds are at most MaxJobs
InitialInit ==
  /\ QueueInit /\ maxConcurrent = DefaultMaxConcurrent
  /\ StoreIdle /\ RunIdle
  /\ recording = FALSE /\ handlers = RegisteredHandlers
  /\ \E E \in SUBSET Kinds : \E W \in SUBSET E :
       \E deps \in [Kinds -> OrderedDependencyLists] :
         /\ Cardinality(E \ W) <= MaxJobs
         /\ config = ConfigWith(E, W, deps)
  /\ sorted = NoSorted
  /\ isRunning = FALSE /\ heartbeatInterval = FALSE /\ scheduledTasks = {}
  /\ hb = NoHeartbeat /\ now = 0 /\ lastSyncAt = [k \in Kinds |-> 0]
  /\ lastSuccessAt = [k \in Kinds |-> 0]
  /\ log = {}
  /\ req = NoRequest /\ res = NoResponse /\ events = 0 /\ secret = "secret"
  /\ PullIdle

InitialNext ==
  \/ TriggerAllSyncs
  \/ IsSyncRunningRead
  \/ AreDependenciesSatisfiedResume
  \/ GetNextJobResume
  \/ ProcessNextResume
  \/ \E a \in active : MarkSyncStarted(a)
  \/ \E a \in active : \E ok \in BOOLEAN : SyncReturns(a, ok)
  \/ \E a \in active : FinishJob(a)

SpecInitial == InitialInit /\ [][InitialNext]_vars

\* ------------------------------------------------------------------ C40
\* the enabled cron-triggered kinds of the configuration
EnabledCron == {k \in Kinds : config[k].enabled /\ config[k].trigger = "cron"}

\* the declared dependencies of a kind that are enabled and cron-triggered
CronDependencies(k) == SeqToSet(config[k].dependencies) \cap EnabledCron

\* position of the kind's job in a queue, 0 when it has none
QueuedAt(q, k) == FirstIndex(q, LAMBDA j : j.dataObject = k)

\* the queue holds one NORMAL sync job per enabled cron-triggered kind, every
\* job behind the jobs of its kind's dependencies
InDependencyOrder(q) ==
  /\ Len(q) = Cardinality(EnabledCron)
  /\ \A k \in EnabledCron : QueuedAt(q, k) # 0
  /\ \A x \in 1..Len(q) :
       /\ q[x].type = "sync" /\ q[x].priority = NORMAL
       /\ q[x].dependencies = config[q[x].dataObject].dependencies
       /\ status'[q[x].id] = "queued"
       /\ \A d \in CronDependencies(q[x].dataObject) :
            QueuedAt(q, d) # 0 /\ QueuedAt(q, d) < x

\* the first call of triggerAllSyncs numbers its jobs in the order of the queue
FirstJobOf(k) ==
  QueuedAt(TriggerEach(config, getEnabledDataObjects(config).val, 1,
                       QueueOf(<<>>, status, IdleCall, 0)).queue, k)

\* C40: Initial sync order.  From an empty idle queue with maxConcurrent = 1,
\* triggerAllSyncs enqueues one NORMAL sync job per enabled cron-triggered
\* kind in dependency order, and the handler of a kind's job is invoked only
\* when the jobs of all its enabled cron-triggered dependencies have
\* finished, as completed or as failed.
C40_InitialSyncOrder ==
  [][/\ (TriggerAllSyncs /\ jobCounter = 0) => InDependencyOrder(queue')
     /\ \A a \in active' \ active :
          (a.pc = "start" /\ a.job.id <= Cardinality(EnabledCron))
            => \A d \in CronDependencies(a.job.dataObject) :
                 status[FirstJobOf(d)] \in {"completed", "failed"}]_vars

\* C40 witness: the job of a kind with an enabled cron-triggered dependency
\* has been started, after the job of the dependency was enqueued first, ran
\* and finished
C40_Witness ==
  \E a \in active :
    /\ CronDependencies(a.job.dataObject) # {}
    /\ \A d \in CronDependencies(a.job.dataObject) :
         FirstJobOf(d) < a.job.id /\ status[FirstJobOf(d)] \in {"completed", "failed"}

\* ============================================== the queue left to drain
\* the steps the event loop owes: every continuation of a settled await and
\* every handler's return
DrainSteps ==
  \/ IsSyncRunningRead
  \/ AreDependenciesSatisfiedResume
  \/ GetNextJobResume
  \/ ProcessNextResume
  \/ \E a \in active : MarkSyncStarted(a)
  \/ \E a \in active : \E ok \in BOOLEAN : SyncReturns(a, ok)
  \/ \E a \in active : \E ok \in BOOLEAN : WebhookReturns(a, ok)
  \/ \E a \in active : FinishJob(a)

\* calls of enqueue, MaxJobs of them at most, and nothing else from outside
DrainNext ==
  \/ \E k \in Kinds : TriggerSync(k)
  \/ \E k \in Kinds : TriggerImmediateSync(k)
  \/ \E k \in WebhookKinds : WebhookEnqueue(k)
  \/ DrainSteps

\* the enqueues stop, every await settles and every handler returns
SpecDrain == Init /\ [][DrainNext]_vars /\ WF_vars(DrainSteps)

\* ------------------------------------------------------------------ C33
\* C33: Queue drains.  Once the calls of enqueue have stopped, with handlers
\* that return and the acyclic dependencies of the configuration, every job
\* that is queued is eventually completed or failed, and the queue ends idle:
\* nothing queued, nothing running, no pass in flight.
C33_QueueDrains ==
  /\ \A id \in 1..MaxJobs :
       (status[id] = "queued") ~> (status[id] \in {"completed", "failed"})
  /\ <>[](queue = <<>> /\ running = <<>> /\ ~processing)

\* ============================================== push runs, one after another
\* sync's processor: createIdMapping rejects with a database error after the
\* remote create resolved; the catch block returns failureResult
CreateIdMappingRejects(x) ==
  /\ x \in 1..Len(work) /\ work[x].pc = "createIdMapping"
  /\ work' = [work EXCEPT ![x].pc = "result", ![x].result = "skipped"]
  /\ UNCHANGED <<behavior, remote, changed, run, stats, calls, prev>>
  /\ UNCHANGED <<recording, handlers, seen>>
  /\ UNCHANGED envVars
  /\ UNCHANGED storeVars
  /\ UNCHANGED queueVars

\* sync() of a push handler called by one trigger after another, whatever the
\* outcome of the call before, on a source that may repeat an externalId
PushNext ==
  \/ \E ok \in BOOLEAN : SyncCalled(run.kind, ok)
  \/ ItemNext
  \/ \E x \in 1..Len(work) : GetCatalogs(x)
  \/ \E x \in 1..Len(work) : CreateIdMappingRejects(x)
  \/ \E ok \in BOOLEAN : SyncCalledAgain(run.kind, ok)

SpecPush == RerunInit /\ [][PushNext]_vars

\* ------------------------------------------------------------------ C35
\* the remote records that carry the externalId as their natural key
RecordsOf(e) == {r \in remote : r.key = e}

\* C35: No duplicate remote records.  Across the push runs of a kind the
\* remote store holds at most one record per source externalId, also after a
\* run in which the mapping write or the write-back to the source failed
\* once the remote create had succeeded, and for a source snapshot with two
\* rows of the same externalId.
C35_NoDuplicateRemote ==
  \A e \in ExternalIds : Cardinality(RecordsOf(e)) <= 1

\* ------------------------------------------------------------------ C34
\* the webhook route calls enqueue once per stored event and nothing else
\* does, so the n-th accepted event is the payload of the job numbered n: the
\* handler can be given the payload only if that job was added to the queue
HasCarrier(n) == status[n] # "none"

\* C34: No accepted webhook event is dropped.  Every event the ingress has
\* stored and acknowledged with processed: true has a job that carries its
\* payload to the kind's handler, whatever the queue held when it arrived,
\* another webhook job of the kind queued or running included.
C34_NoAcceptedEventDropped ==
  \A n \in 1..MaxJobs : n <= events => HasCarrier(n)

\* ============================================== pull handlers: processWebhookData
PullKinds == {"orders", "customers"}

\* the events of the model: an order (key = order.name) with its line items,
\* a customer (key = customer.email) with its id
OrderTopics == {"orders/create", "orders/updated"}
CustomerTopics == {"customers/create", "customers/update"}
PullEvents(kind) ==
  IF kind = "orders"
    THEN {[topic |-> t, key |-> k, id |-> "none", lines |-> l] :
            t \in OrderTopics, k \in {"A", "B"}, l \in 0..MaxLines}
    ELSE {[topic |-> t, key |-> k, id |-> i, lines |-> 0] :
            t \in CustomerTopics, k \in {"A", "B"}, i \in {"1", "2"}}

\* valueInputOption USER_ENTERED: a leading apostrophe makes the cell text and
\* is not part of the stored value
UserEntered(v) == IF v.prefix = "'" THEN Plain(v.text) ELSE v

\* rowId?.replace(/^'/, '')
CleanRowId(v) == IF v.prefix = "'" THEN Plain(v.text) ELSE v

\* OrdersHandler: one row per line item, one row for an order without any
OrderRows(event) ==
  IF event.lines = 0
    THEN << [Name |-> UserEntered(Plain(event.key)), line |-> 0] >>
    ELSE [i \in 1..event.lines |-> [Name |-> UserEntered(Plain(event.key)), line |-> i]]

\* CustomersHandler: customerRow with 'Customer ID': `'${customer.id}`
CustomerRow(event) ==
  [Email |-> UserEntered(Plain(event.key)),
   CustomerID |-> UserEntered(Prefixed("'", event.id))]

\* OrdersHandler: existingRows.some(row => row.values.Name === order.name)
OrderExists(rows, event) ==
  \E x \in 1..Len(rows) : rows[x].Name = Plain(event.key)

\* CustomersHandler: existingRows.find by email or by cleaned customer id;
\* the position of the first match, 0 when there is none
ExistingCustomerRow(rows, event) ==
  FirstIndex(rows, LAMBDA r : \/ r.Email = Plain(event.key)
                              \/ CleanRowId(r.CustomerID) = Plain(event.id))

\* the gid of the remote record of an event
ShopifyGid(kind, event) ==
  IF kind = "orders" THEN (IF event.key = "A" THEN "x1" ELSE "x2")
  ELSE (IF event.id = "1" THEN "x1" ELSE "x2")

\* handleWebhook calls processWebhook(topic, shopifyId, data): the first
\* delivery of an event, and the same event delivered again after the call
\* for the first delivery has ended
ProcessWebhookData(kind, event) ==
  /\ pull.kind = kind
  /\ \/ pull.pc = "idle" /\ pull.n = 0
     \/ pull.pc = "done" /\ pull.n = 1 /\ pull.event = event
  /\ pull' = [pull EXCEPT !.pc = "readAll", !.event = event,
                          !.once = IF pull.n = 1
                                     THEN [sheet |-> sheet, store |-> store]
                                     ELSE @]
  /\ UNCHANGED sheet
  /\ UNCHANGED <<queueVars, handlers, seen, storeVars, runVars, configVars,
                 schedVars, hookVars>>

\* sheetsClient.readAll resolves: an order that exists is skipped unless the
\* topic is orders/updated; a customer is looked for by email or id
ReadAllResolves ==
  /\ pull.pc = "readAll"
  /\ pull' = IF pull.kind = "orders"
               THEN IF OrderExists(sheet, pull.event) /\ pull.event.topic # "orders/updated"
                      THEN [pull EXCEPT !.pc = "done", !.n = @ + 1]
                      ELSE [pull EXCEPT !.pc = "appendRows"]
               ELSE IF ExistingCustomerRow(sheet, pull.event) # 0
                      THEN [pull EXCEPT !.pc = "updateRow",
                                        !.row = ExistingCustomerRow(sheet, pull.event)]
                      ELSE [pull EXCEPT !.pc = "appendRows"]
  /\ UNCHANGED sheet
  /\ UNCHANGED <<queueVars, handlers, seen, storeVars, runVars, configVars,
                 schedVars, hookVars>>

\* sheetsClient.appendRows resolves
AppendRowsResolves ==
  /\ pull.pc = "appendRows"
  /\ sheet' = sheet \o (IF pull.kind = "orders" THEN OrderRows(pull.event)
                        ELSE << CustomerRow(pull.event) >>)
  /\ pull' = [pull EXCEPT !.pc = "createIdMapping"]
  /\ UNCHANGED <<queueVars, handlers, seen, storeVars, runVars, configVars,
                 schedVars, hookVars>>

\* sheetsClient.updateRow(sheetName, existingRow.rowIndex, customerRow) resolves
UpdateRowResolves ==
  /\ pull.pc = "updateRow"
  /\ sheet' = [sheet EXCEPT ![pull.row] = CustomerRow(pull.event)]
  /\ pull' = [pull EXCEPT !.pc = "createIdMapping"]
  /\ UNCHANGED <<queueVars, handlers, seen, storeVars, runVars, configVars,
                 schedVars, hookVars>>

\* createIdMapping(order.name | customer.email, shopifyGid) resolves, or the
\* database rejects the write and processWebhookData throws
PullCreateIdMapping ==
  /\ pull.pc = "createIdMapping"
  /\ LET rows == UpsertRows(store, pull.kind, pull.event.key,
                            ShopifyGid(pull.kind, pull.event))
     IN store' = IF ViolatesShopifyIdKey(rows) THEN store ELSE rows
  /\ pull' = [pull EXCEPT !.pc = "done", !.n = @ + 1]
  /\ UNCHANGED <<sheet, source, mode, deltas>>
  /\ UNCHANGED <<queueVars, handlers, seen, runVars, configVars, schedVars, hookVars>>

\* the sheets a delivery can find: empty, or holding the rows that earlier
\* events of the kind left
SheetsOf(kind) ==
  {<<>>} \cup
  (IF kind = "orders"
     THEN {OrderRows(e) : e \in PullEvents(kind)}
     ELSE {<< CustomerRow(e) >> : e \in PullEvents(kind)})

PullInit ==
  /\ QueueInit /\ maxConcurrent = DefaultMaxConcurrent
  /\ StoreIdle /\ RunIdle
  /\ recording = FALSE /\ handlers = RegisteredHandlers
  /\ config = DefaultConfig /\ sorted = NoSorted
  /\ isRunning = FALSE /\ heartbeatInterval = FALSE /\ scheduledTasks = {}
  /\ hb = NoHeartbeat /\ now = 0 /\ lastSyncAt = [k \in Kinds |-> 0]
  /\ lastSuccessAt = [k \in Kinds |-> 0]
  /\ log = {}
  /\ req = NoRequest /\ res = NoResponse /\ events = 0 /\ secret = "secret"
  /\ \E kind \in PullKinds :
       /\ pull = [NoPull EXCEPT !.kind = kind]
       /\ sheet \in SheetsOf(kind)

PullNext ==
  \/ \E e \in PullEvents(pull.kind) : ProcessWebhookData(pull.kind, e)
  \/ ReadAllResolves
  \/ AppendRowsResolves
  \/ UpdateRowResolves
  \/ PullCreateIdMapping

SpecPull == PullInit /\ [][PullNext]_vars

\* ------------------------------------------------------------------ C38
\* C38: Pull-handler redelivery idempotence.  When processWebhookData has
\* processed the same event (topic, remote id and payload) a second time, the
\* sheet holds the rows and the mapping store the rows that it held after
\* the first time.
C38_RedeliveryIdempotent ==
  (pull.n = 2 /\ pull.pc = "done")
    => /\ sheet = pull.once.sheet
       /\ store = pull.once.store
====
